---- MODULE Spec2Model ----
(***************************************************************************)
(* The issue aggregation pipeline of server/jobs/issueAggregator.js with   *)
(* the parts of server/services/githubService.js and of the Issue          *)
(* collection (server/models/Issue.js) that it drives.                     *)
(*                                                                         *)
(* Every caller of aggregateIssues (the cron callback, the start-up timer, *)
(* the recommendations route) is a process of its own with its own locals; *)
(* a process is suspended at one of the awaits of the code, and each       *)
(* action is the synchronous run of the code from one await to the next.   *)
(* Time is counted in whole days.  Popularity is kept as an integer, the   *)
(* score of the code multiplied by PopScale.                               *)
(*                                                                         *)
(* A call of the collection (findOne, create, findByIdAndUpdate,           *)
(* updateMany) takes effect in one step, the step in which it resolves,    *)
(* and changes the fields it names and no other.  The variables from       *)
(* result on record what has happened; no action reads them to decide      *)
(* what the program does.                                                  *)
(***************************************************************************)
EXTENDS Integers, Sequences, FiniteSets, TLC

(* ----------------------------- bounds --------------------------------- *)
MaxNow == 32
MaxCycles == 2
MaxCleanups == 1
MaxClock == 3
WideCount == 51
MaxAdds == 3
MaxOps == 3
MaxLabels == 2
MaxRepos == 2
MaxEvents == 2
MaxNameLen == 3

(* ------------------------- program constants --------------------------- *)
MaxRetries == 3
StaleDays == 30
StarsCap == 1000
CommentsCap == 10
ReactionsCap == 5
FreshnessDays == 30

(* Popularity weights 0.4, 0.3, 0.2, 0.1 on a scale on which 1 is 30000:   *)
(* one star is worth 0.4/1000, one comment 0.3/10, one reaction 0.2/5 and *)
(* one day of freshness 0.1/30.                                            *)
StarUnit == 12
CommentUnit == 900
ReactionUnit == 1200
FreshUnit == 100
PopScale == 10 * FreshnessDays * FreshUnit

(* The clock starts one day past the staleness window. *)
Day0 == StaleDays + 1

Procs == {"cron", "startup", "route"}

Min(a, b) == IF a < b THEN a ELSE b
Max(a, b) == IF a > b THEN a ELSE b

(* ------------------------- the external source ------------------------- *)
(* An item as the source returns it; id 0 stands for a missing identity.   *)
Item(id, pr, title, created, updated, comments, reactions) ==
    [id |-> id, pull_request |-> pr, title |-> title, created_at |-> created,
     updated_at |-> updated, stars |-> 0, comments |-> comments,
     reactions |-> reactions]

ItemFresh == Item(1, FALSE, "a", 30, 30, 5, 1)
ItemFreshEdited == Item(1, FALSE, "b", 30, 31, 6, 1)
ItemOld == Item(2, FALSE, "c", 1, 1, 12, 7)
ItemPR == Item(3, TRUE, "d", 30, 30, 0, 0)
ItemNoId == Item(0, FALSE, "e", 30, 30, 0, 0)

RepoIds == {1, 2}
Repo(id) == [id |-> id]

(* What the source holds: the trending repositories, the open issues of    *)
(* each repository and the result of the global search.                    *)
Upstream1 ==
    [trending |-> <<Repo(1)>>,
     issuesOf |-> [r \in RepoIds |-> IF r = 1 THEN <<ItemFresh, ItemPR>> ELSE <<>>],
     search |-> <<ItemFreshEdited, ItemOld, ItemNoId>>]
Upstream2 ==
    [trending |-> <<Repo(1), Repo(2)>>,
     issuesOf |-> [r \in RepoIds |-> IF r = 1 THEN <<ItemOld>> ELSE <<ItemPR>>],
     search |-> <<ItemFresh>>]
Upstreams == {Upstream1, Upstream2}

(* A week with many new starred repositories: WideCount of them trend. *)
UpstreamWide ==
    [trending |-> [i \in 1..WideCount |-> Repo(i)],
     issuesOf |-> [r \in 1..WideCount |-> <<>>],
     search |-> <<ItemOld, ItemNoId>>]

(* per_page of githubService.getTrendingRepositories, line 212. *)
PerPage == 100

(* response.data.items of octokit.search.repos: one page of the result. *)
TrendingPage(u) == SubSeq(u.trending, 1, Min(Len(u.trending), PerPage))

NoItem == Item(0, FALSE, "", 0, 0, 0, 0)

(* ------------------------- the quota of the source --------------------- *)
(* handleRateLimit waits when fewer than this many requests remain. *)
RateThreshold == 10

(* data.rate of rateLimit.get: the requests remaining and the time, in     *)
(* seconds, at which the quota is reset.                                   *)
Rate(remaining, reset) == [remaining |-> remaining, reset |-> reset]
NoRate == Rate(-1, -1)
Remainings == {0, RateThreshold - 1, RateThreshold}

VARIABLES
    isRunning,      \* IssueAggregator.isRunning
    pc,             \* per caller: the await it is suspended at
    retryCount,     \* per caller: local retryCount of aggregateIssues
    repos,          \* per caller: repositories still to visit
    issues,         \* per caller: items of the current processIssues call still to process
    stage,          \* per caller: "repo" or "search", the processIssues call in progress
    cur,            \* per caller: the item processAndStoreIssue is working on
    existing,       \* per caller: _id found by Issue.findOne, 0 for null
    issueData,      \* per caller: the record processAndStoreIssue has built
    store,          \* the Issue collection
    nextId,         \* next _id the collection hands out
    now,            \* the clock, in days
    upstream,       \* what the external source holds
    cycles,         \* cycles started so far
    cleanups,       \* runs of cleanupOldIssues so far
    result,         \* how the latest cycle ended: "none", "success" or "exhausted"
    written,        \* the data the latest cycle last wrote, one record per githubId
    sawSkip,        \* the latest cycle met a pull request or an item without identity
    attempts,       \* attempts the latest cycle has started
    fetchErr,       \* the fetch of its current attempt that failed last, or "none"
    unseenDeact,    \* githubIds deactivated by cleanup and not upserted since
    seenLatest,     \* githubIds upserted by the latest completed cycle
    cleanRun,       \* the cycle in progress met no error and no cleanup
    stableRuns,     \* consecutive undisturbed successful cycles, capped at 2
    snapStore,      \* the collection at the end of the first of them
    inFlight,       \* source-client calls and store operations of the cycle not yet settled
    fetched,        \* ids of the repositories whose issues the attempt has asked for
    method,         \* source client: the method of githubService being called, or "none"
    cpc,            \* source client: the await the call is suspended at
    clock,          \* source client: the time, in seconds
    rate,           \* source client: data.rate as rateLimit.get last returned it to the call
    timerDue,       \* source client: when the timer of handleRateLimit fires
    requests,       \* source client: the API requests the call has issued, with their times
    args,           \* skill service: the arguments of the call that is followed
    ret,            \* skill service: what the call returned, NotCalled before
    skillsMap,      \* skill service: the Map that addSkill works on
    userSkills,     \* user.skills of the profile that the skill routes work on
    calls,          \* skill service: how many calls have returned
    octokit,        \* githubService: the account whose token its client is built with
    jobs,           \* the continuations that are ready to run, oldest first
    cb,             \* per caller: the locals and the position of its OAuth callback
    users,          \* the User collection: githubId and githubToken of each account
    savedIssues,    \* user.savedIssues of the one account that saves and unsaves
    saves           \* per request: the locals and the position of its save or unsave

locals == <<retryCount, repos, issues, stage, cur, existing, issueData>>
(* The call of a githubService method that ClientSpec follows. *)
clientVars == <<method, cpc, clock, rate, timerDue, requests>>

(* The calls of the skill service (AIService) and of the skill routes     *)
(* that the specifications of the skill service follow.                    *)
serviceVars == <<args, ret, skillsMap, userSkills, calls>>

(* What no step of the pipeline touches. *)
(* The OAuth callbacks and the save and unsave requests that are followed. *)
accountVars == <<octokit, jobs, cb, users, savedIssues, saves>>

aside == <<clientVars, serviceVars, accountVars>>

world == <<store, nextId, now, upstream, aside>>
opLog == <<inFlight, fetched>>
stable == <<cleanRun, stableRuns, snapStore>>
cycleLog == <<result, written, sawSkip, attempts, fetchErr>>

pipeline == <<isRunning, pc, locals, store, nextId, now, upstream, cycles, cleanups,
              cycleLog, unseenDeact, seenLatest, stable, opLog>>

vars == <<pipeline, aside>>

InCycle == {"awaitTrending", "awaitRepoIssues", "items", "awaitFindOne",
            "awaitWrite", "awaitSearch", "awaitDelay"}
Outside == {"idle", "skipped", "done"}

(* Where a caller is once its call has returned: the timer fires again and *)
(* the route is requested again, the start-up run happens once.            *)
Returned(c) == IF c = "startup" THEN "done" ELSE "idle"

(* The awaits at which a source-client call of the caller is in flight. *)
FetchAwaits == {"awaitTrending", "awaitRepoIssues", "awaitSearch"}

(* ------------------------- pure functions ------------------------------ *)
(* calculatePopularity: stars, comments, reactions and freshness, each     *)
(* capped, on the scale PopScale.                                          *)
calculatePopularity(item, t) ==
    Min(item.stars, StarsCap) * StarUnit
    + Min(item.comments, CommentsCap) * CommentUnit
    + Min(item.reactions, ReactionsCap) * ReactionUnit
    + Max(0, FreshnessDays - (t - item.created_at)) * FreshUnit

(* issueData of processAndStoreIssue, built at time t. *)
BuildIssueData(item, t) ==
    [githubId |-> item.id, title |-> item.title, createdAt |-> item.created_at,
     lastActivity |-> item.updated_at, isActive |-> TRUE,
     popularity |-> calculatePopularity(item, t)]

NoData == BuildIssueData(NoItem, 0)

(* Variant: the test of the identity is missing. *)
SkipsPullsOnly(item) == item.pull_request

(* The two early returns of processAndStoreIssue. *)
SkipsItem(item) == item.id = 0 \/ item.pull_request

(* response.data.filter(issue => !issue.pull_request) *)
FilterPulls(s) == SelectSeq(s, LAMBDA it : ~it.pull_request)

HasPull(s) == \E i \in 1..Len(s) : s[i].pull_request

(* ------------------------- the Issue collection ------------------------ *)
Doc(id, data) ==
    [_id |-> id, githubId |-> data.githubId, title |-> data.title,
     createdAt |-> data.createdAt, lastActivity |-> data.lastActivity,
     isActive |-> data.isActive, popularity |-> data.popularity]

(* Variant: the filter names a field the schema does not have, the query  *)
(* matches every document and the first one is returned.                 *)
FindOneAny(gid) ==
    IF store = {} THEN 0 ELSE CHOOSE h \in {d._id : d \in store} : \A d \in store : h <= d._id

(* Issue.findOne({ githubId }): the _id of the first match, 0 for null. *)
FindOne(gid) ==
    LET hits == {d._id : d \in {e \in store : e.githubId = gid}}
    IN IF hits = {} THEN 0 ELSE CHOOSE h \in hits : \A k \in hits : h <= k

(* The unique index on githubId refuses a write that would give a second   *)
(* document the same githubId.                                             *)
DuplicateKey(id, gid) == \E d \in store : d._id # id /\ d.githubId = gid

(* Issue.create(data) *)
Create(data) == store \cup {Doc(nextId, data)}

(* Issue.findByIdAndUpdate(id, data): every field of data is set. *)
FindByIdAndUpdate(id, data) ==
    {IF d._id = id THEN Doc(id, data) ELSE d : d \in store}

(* Variant: $lte in place of $lt. *)
IsOldActive(d, t) == d.lastActivity <= t - StaleDays /\ d.isActive

(* The filter of cleanupOldIssues at time t. *)
IsStaleActive(d, t) == d.lastActivity < t - StaleDays /\ d.isActive

(* Issue.updateMany(filter, { $set: { isActive: false } }) *)
Deactivate(t) ==
    {IF IsStaleActive(d, t) THEN [d EXCEPT !.isActive = FALSE] ELSE d : d \in store}

GithubIds(S) == {d.githubId : d \in S}

(* ------------------------------ Init ----------------------------------- *)
(* No call of a githubService method is being followed. *)
ClientIdle ==
    /\ method = "none"
    /\ cpc = "idle"
    /\ clock = 0
    /\ rate = NoRate
    /\ timerDue = 0
    /\ requests = <<>>

(* The service as constructed, no callback and no request under way. *)
AccountIdle ==
    /\ octokit = "app"
    /\ jobs = <<>>
    /\ cb = [c \in {} |-> 0]
    /\ users = {}
    /\ savedIssues = <<>>
    /\ saves = [r \in {} |-> 0]

(* No call of the skill service is being followed. *)
ServiceIdle ==
    /\ args = <<>>
    /\ ret = <<>>
    /\ skillsMap = <<>>
    /\ userSkills = <<>>
    /\ calls = 0

(* The aggregator as constructed, facing a source that holds u. *)
PipelineInit(u) ==
    /\ isRunning = FALSE
    /\ pc = [c \in Procs |-> "idle"]
    /\ retryCount = [c \in Procs |-> 0]
    /\ repos = [c \in Procs |-> <<>>]
    /\ issues = [c \in Procs |-> <<>>]
    /\ stage = [c \in Procs |-> "repo"]
    /\ cur = [c \in Procs |-> NoItem]
    /\ existing = [c \in Procs |-> 0]
    /\ issueData = [c \in Procs |-> NoData]
    /\ store = {}
    /\ nextId = 1
    /\ now = Day0
    /\ upstream = u
    /\ cycles = 0
    /\ cleanups = 0
    /\ result = "none"
    /\ written = {}
    /\ sawSkip = FALSE
    /\ attempts = 0
    /\ fetchErr = "none"
    /\ unseenDeact = {}
    /\ seenLatest = {}
    /\ cleanRun = FALSE
    /\ stableRuns = 0
    /\ snapStore = {}
    /\ inFlight = 0
    /\ fetched = <<>>

Init ==
    /\ \E u \in Upstreams : PipelineInit(u)
    /\ ClientIdle
    /\ AccountIdle
    /\ ServiceIdle

(* --------------------- aggregateIssues: entry and exit ----------------- *)
(* Variant: the guard is never seen set. *)
NeverRunning == FALSE

(* The test of line 42. *)
AlreadyRunning == isRunning

(* Variant: the catch block forgets the decrement. *)
NoDecrement(n) == n

(* retryCount-- of the catch block. *)
AfterFailure(n) == n - 1

Disturbed ==
    /\ cleanRun' = FALSE
    /\ stableRuns' = 0
    /\ snapStore' = {}

(* The locals of a call that has returned are gone. *)
DropLocals(c) ==
    /\ retryCount' = [retryCount EXCEPT ![c] = 0]
    /\ repos' = [repos EXCEPT ![c] = <<>>]
    /\ issues' = [issues EXCEPT ![c] = <<>>]
    /\ stage' = [stage EXCEPT ![c] = "repo"]
    /\ cur' = [cur EXCEPT ![c] = NoItem]
    /\ existing' = [existing EXCEPT ![c] = 0]
    /\ issueData' = [issueData EXCEPT ![c] = NoData]

(* Lines 42-55: the guard is passed, the flag set and the first fetch issued. *)
StartCycle(c) ==
    /\ cycles < MaxCycles
    /\ isRunning' = TRUE
    /\ pc' = [pc EXCEPT ![c] = "awaitTrending"]
    /\ retryCount' = [retryCount EXCEPT ![c] = MaxRetries]
    /\ cycles' = cycles + 1
    /\ result' = "none"
    /\ written' = {}
    /\ sawSkip' = FALSE
    /\ attempts' = 1
    /\ fetchErr' = "none"
    /\ cleanRun' = TRUE
    /\ stableRuns' = IF stableRuns = 2 THEN 1 ELSE stableRuns
    /\ snapStore' = IF stableRuns = 2 THEN store ELSE snapStore
    /\ inFlight' = inFlight + 1
    /\ fetched' = <<>>
    /\ UNCHANGED <<repos, issues, stage, cur, existing, issueData, world,
                   cleanups, unseenDeact, seenLatest>>

(* Lines 42-45: the call returns at once. *)
Refused(c) ==
    /\ pc' = [pc EXCEPT ![c] = "skipped"]
    /\ UNCHANGED <<isRunning, locals, world, cycles, cleanups, cycleLog, unseenDeact,
                   seenLatest, stable, opLog>>

(* aggregateIssues up to its first await. *)
Enter(c) == IF AlreadyRunning THEN Refused(c) ELSE StartCycle(c)

(* The cron callback of start(): its own test of the flag, then the call. *)
CronTick ==
    /\ pc["cron"] \in Outside
    /\ IF isRunning THEN Refused("cron") ELSE Enter("cron")

(* The setTimeout callback of start(): runs once. *)
StartupRun ==
    /\ pc["startup"] = "idle"
    /\ Enter("startup")

(* The recommendations route, routes/user.js line 328. *)
RouteTrigger ==
    /\ pc["route"] \in Outside
    /\ Enter("route")

(* Variant: the flag is cleared on the success path only. *)
FlagClearedOnSuccess(how) == how # "success"

(* Line 81, this.isRunning = false, whichever way the loop was left. *)
FlagAfterCycle(how) == FALSE

(* Line 81 and the return: the loop was left by break ("success") or with  *)
(* retryCount 0 ("exhausted").                                             *)
Finish(c, how) ==
    /\ isRunning' = FlagAfterCycle(how)
    /\ pc' = [pc EXCEPT ![c] = Returned(c)]
    /\ result' = how
    /\ seenLatest' = GithubIds(written)
    /\ IF how = "success" /\ cleanRun
       THEN /\ stableRuns' = IF stableRuns = 0 THEN 1 ELSE 2
            /\ snapStore' = IF stableRuns = 0 THEN store ELSE snapStore
       ELSE /\ stableRuns' = 0
            /\ snapStore' = {}
    /\ cleanRun' = FALSE
    /\ DropLocals(c)

(* Variant: the catch block undoes what the cycle wrote. *)
RolledBack == {d \in store : d.githubId \notin GithubIds(written)}

(* The catch block writes nothing to the collection. *)
StoreAfterCatch == store

(* The catch block of lines 71-78, then the loop test; the call that       *)
(* rejected is settled.                                                    *)
Catch(c, what) ==
    /\ fetchErr' = what
    /\ inFlight' = inFlight - 1
    /\ IF AfterFailure(retryCount[c]) > 0
       THEN /\ retryCount' = [retryCount EXCEPT ![c] = AfterFailure(retryCount[c])]
            /\ pc' = [pc EXCEPT ![c] = "awaitDelay"]
            /\ Disturbed
            /\ UNCHANGED <<isRunning, result, seenLatest, repos, issues, stage,
                           cur, existing, issueData>>
       ELSE Finish(c, "exhausted")
    /\ store' = StoreAfterCatch
    /\ UNCHANGED <<nextId, now, upstream, aside, cycles, cleanups, written, sawSkip,
                   attempts, unseenDeact, fetched>>

(* The 5 second delay is over: the next attempt issues its first fetch. *)
DelayElapses(c) ==
    /\ pc[c] = "awaitDelay"
    /\ pc' = [pc EXCEPT ![c] = "awaitTrending"]
    /\ attempts' = attempts + 1
    /\ fetchErr' = "none"
    /\ inFlight' = inFlight + 1
    /\ fetched' = <<>>
    /\ UNCHANGED <<isRunning, locals, world, cycles, cleanups, result, written, sawSkip,
                   unseenDeact, seenLatest, stable>>

(* ----------------------------- the fetches ----------------------------- *)
(* The for loop of lines 59-62 with rs still to visit, then line 65: the   *)
(* next source call is issued.                                             *)
IssueNextFetch(c, rs) ==
    /\ repos' = [repos EXCEPT ![c] = rs]
    /\ pc' = [pc EXCEPT ![c] = IF rs # <<>> THEN "awaitRepoIssues" ELSE "awaitSearch"]
    /\ fetched' = IF rs # <<>> THEN Append(fetched, Head(rs).id) ELSE fetched

(* getTrendingRepositories resolves. *)
TrendingReturns(c) ==
    /\ pc[c] = "awaitTrending"
    /\ IssueNextFetch(c, TrendingPage(upstream))
    /\ UNCHANGED <<isRunning, retryCount, issues, stage, cur, existing, issueData,
                   world, cycles, cleanups, cycleLog, unseenDeact, seenLatest, stable,
                   inFlight>>

(* getTrendingRepositories rethrows the error of the source. *)
TrendingThrows(c) ==
    /\ pc[c] = "awaitTrending"
    /\ Catch(c, "trending")

(* getRepositoryIssues resolves with the listing, pull requests removed;   *)
(* processIssues starts on it.                                             *)
RepoIssuesReturns(c) ==
    /\ pc[c] = "awaitRepoIssues"
    /\ LET raw == upstream.issuesOf[Head(repos[c]).id]
       IN /\ issues' = [issues EXCEPT ![c] = FilterPulls(raw)]
          /\ sawSkip' = (sawSkip \/ HasPull(raw))
    /\ stage' = [stage EXCEPT ![c] = "repo"]
    /\ repos' = [repos EXCEPT ![c] = Tail(@)]
    /\ pc' = [pc EXCEPT ![c] = "items"]
    /\ inFlight' = inFlight - 1
    /\ UNCHANGED <<isRunning, retryCount, cur, existing, issueData, world, cycles, cleanups,
                   result, written, attempts, fetchErr, unseenDeact, seenLatest,
                   stable, fetched>>

(* The listing fails and the error reaches aggregateIssues. *)
RepoIssuesThrows(c) ==
    /\ pc[c] = "awaitRepoIssues"
    /\ Catch(c, "repoIssues")

(* The listing fails: lines 152-155 of githubService log it and return []. *)
RepoIssuesFails(c) ==
    /\ pc[c] = "awaitRepoIssues"
    /\ fetchErr' = "repoIssues"
    /\ issues' = [issues EXCEPT ![c] = <<>>]
    /\ stage' = [stage EXCEPT ![c] = "repo"]
    /\ repos' = [repos EXCEPT ![c] = Tail(@)]
    /\ pc' = [pc EXCEPT ![c] = "items"]
    /\ Disturbed
    /\ inFlight' = inFlight - 1
    /\ UNCHANGED <<isRunning, retryCount, cur, existing, issueData, world, cycles, cleanups,
                   result, written, sawSkip, attempts, unseenDeact, seenLatest, fetched>>

(* searchIssues resolves with { items, total_count }, pull requests        *)
(* removed; processIssues starts on its items.                             *)
SearchReturns(c) ==
    /\ pc[c] = "awaitSearch"
    /\ issues' = [issues EXCEPT ![c] = FilterPulls(upstream.search)]
    /\ sawSkip' = (sawSkip \/ HasPull(upstream.search))
    /\ stage' = [stage EXCEPT ![c] = "search"]
    /\ pc' = [pc EXCEPT ![c] = "items"]
    /\ inFlight' = inFlight - 1
    /\ UNCHANGED <<isRunning, retryCount, repos, cur, existing, issueData, world,
                   cycles, cleanups, result, written, attempts, fetchErr, unseenDeact,
                   seenLatest, stable, fetched>>

(* searchIssues throws 'Failed to search issues'. *)
SearchThrows(c) ==
    /\ pc[c] = "awaitSearch"
    /\ Catch(c, "search")

(* --------------------- processIssues, item by item --------------------- *)
(* processIssues has returned for a repository: next repository or search. *)
ListingDone(c) ==
    /\ pc[c] = "items"
    /\ issues[c] = <<>>
    /\ stage[c] = "repo"
    /\ IssueNextFetch(c, repos[c])
    /\ inFlight' = inFlight + 1
    /\ UNCHANGED <<isRunning, retryCount, issues, stage, cur, existing, issueData,
                   world, cycles, cleanups, cycleLog, unseenDeact, seenLatest, stable>>

(* processIssues has returned for the search result: lines 68-69 and 81. *)
CycleSucceeds(c) ==
    /\ pc[c] = "items"
    /\ issues[c] = <<>>
    /\ stage[c] = "search"
    /\ Finish(c, "success")
    /\ UNCHANGED <<world, cycles, cleanups, written, sawSkip, attempts, fetchErr,
                   unseenDeact, opLog>>

(* processAndStoreIssue returns early, lines 200-208. *)
SkipItem(c) ==
    /\ pc[c] = "items"
    /\ issues[c] # <<>>
    /\ SkipsItem(Head(issues[c]))
    /\ issues' = [issues EXCEPT ![c] = Tail(@)]
    /\ sawSkip' = TRUE
    /\ UNCHANGED <<isRunning, pc, retryCount, repos, stage, cur, existing,
                   issueData, world, cycles, cleanups, result, written, attempts, fetchErr,
                   unseenDeact, seenLatest, stable, opLog>>

(* processAndStoreIssue issues Issue.findOne, line 211. *)
LookupItem(c) ==
    /\ pc[c] = "items"
    /\ issues[c] # <<>>
    /\ ~SkipsItem(Head(issues[c]))
    /\ cur' = [cur EXCEPT ![c] = Head(issues[c])]
    /\ issues' = [issues EXCEPT ![c] = Tail(@)]
    /\ pc' = [pc EXCEPT ![c] = "awaitFindOne"]
    /\ inFlight' = inFlight + 1
    /\ UNCHANGED <<isRunning, retryCount, repos, stage, existing, issueData,
                   world, cycles, cleanups, cycleLog, unseenDeact, seenLatest, stable,
                   fetched>>

(* Variant: the write is issued without await, processAndStoreIssue        *)
(* returns while it is pending.                                            *)
WriteNotAwaited == "items"

(* await Issue.findByIdAndUpdate(...) / await Issue.create(...), lines     *)
(* 242 and 245: where the caller is once the write is issued.              *)
WriteAwaited == "awaitWrite"

(* findOne resolves; lines 214-247 build issueData and issue the write. *)
FindOneReturns(c) ==
    /\ pc[c] = "awaitFindOne"
    /\ existing' = [existing EXCEPT ![c] = FindOne(cur[c].id)]
    /\ issueData' = [issueData EXCEPT ![c] = BuildIssueData(cur[c], now)]
    /\ pc' = [pc EXCEPT ![c] = WriteAwaited]
    /\ UNCHANGED <<isRunning, retryCount, repos, issues, stage, cur, world,
                   cycles, cleanups, cycleLog, unseenDeact, seenLatest, stable, opLog>>

(* The store call of the item is settled; processAndStoreIssue is over     *)
(* for the item, and its locals with it.                                   *)
ItemDone(c) ==
    /\ pc' = [pc EXCEPT ![c] = "items"]
    /\ inFlight' = inFlight - 1
    /\ cur' = [cur EXCEPT ![c] = NoItem]
    /\ existing' = [existing EXCEPT ![c] = 0]
    /\ issueData' = [issueData EXCEPT ![c] = NoData]
    /\ UNCHANGED <<isRunning, retryCount, repos, issues, stage, fetched>>

(* A store call rejects: processAndStoreIssue rethrows, the catch of       *)
(* processIssues (line 180) logs it and the loop goes on.                  *)
ItemFails(c) ==
    /\ ItemDone(c)
    /\ Disturbed
    /\ UNCHANGED <<world, cycles, cleanups, cycleLog, unseenDeact, seenLatest>>

FindOneThrows(c) ==
    /\ pc[c] = "awaitFindOne"
    /\ ItemFails(c)

(* The write of lines 241-247 takes effect and resolves. *)
WriteReturns(c) ==
    /\ pc[c] = "awaitWrite"
    /\ ~DuplicateKey(existing[c], issueData[c].githubId)
    /\ IF existing[c] # 0
       THEN /\ store' = FindByIdAndUpdate(existing[c], issueData[c])
            /\ UNCHANGED nextId
       ELSE /\ store' = Create(issueData[c])
            /\ nextId' = nextId + 1
    /\ written' = {w \in written : w.githubId # issueData[c].githubId}
                      \cup {issueData[c]}
    /\ unseenDeact' = unseenDeact \ {issueData[c].githubId}
    /\ ItemDone(c)
    /\ UNCHANGED <<now, upstream, aside, cycles, cleanups, result, sawSkip, attempts,
                   fetchErr, seenLatest, stable>>

(* The write rejects (a store error, or the unique index). *)
WriteThrows(c) ==
    /\ pc[c] = "awaitWrite"
    /\ ItemFails(c)

(* ----------------------- cleanup and environment ----------------------- *)
(* cleanupOldIssues, lines 299-314. *)
CleanupOldIssues ==
    /\ cleanups < MaxCleanups
    /\ cleanups' = cleanups + 1
    /\ store' = Deactivate(now)
    /\ unseenDeact' = unseenDeact \cup GithubIds({d \in store : IsStaleActive(d, now)})
    /\ Disturbed
    /\ UNCHANGED <<isRunning, pc, locals, nextId, now, upstream, aside, cycles,
                   cycleLog, seenLatest, opLog>>

(* A day passes. *)
Tick ==
    /\ now < MaxNow
    /\ now' = now + 1
    /\ UNCHANGED <<isRunning, pc, locals, store, nextId, upstream, aside,
                   cycles, cleanups, cycleLog, unseenDeact, seenLatest, stable, opLog>>

CycleStep(c) ==
    \/ TrendingReturns(c) \/ TrendingThrows(c)
    \/ RepoIssuesReturns(c) \/ RepoIssuesFails(c)
    \/ SearchReturns(c) \/ SearchThrows(c)
    \/ ListingDone(c) \/ CycleSucceeds(c) \/ SkipItem(c) \/ LookupItem(c)
    \/ FindOneReturns(c) \/ FindOneThrows(c)
    \/ WriteReturns(c) \/ WriteThrows(c)
    \/ DelayElapses(c)

Next ==
    \/ CronTick
    \/ StartupRun
    \/ RouteTrigger
    \/ \E c \in Procs : CycleStep(c)
    \/ CleanupOldIssues
    \/ Tick

Spec == Init /\ [][Next]_vars

TypeOK ==
    /\ isRunning \in BOOLEAN
    /\ \A c \in Procs : pc[c] \in InCycle \cup Outside
    /\ now \in Day0..MaxNow
    /\ cycles \in 0..MaxCycles
    /\ cleanups \in 0..MaxCleanups

(* The pipeline facing the source of a week with many trending            *)
(* repositories.                                                           *)
WideInit ==
    /\ PipelineInit(UpstreamWide)
    /\ ClientIdle
    /\ AccountIdle
    /\ ServiceIdle

WideSpec == WideInit /\ [][Next]_vars

(* The pipeline facing a source whose clock runs ahead: a well-starred,    *)
(* much discussed item that the source dates later than any time the       *)
(* aggregator reads.                                                       *)
ItemAhead == [Item(1, FALSE, "a", MaxNow + 2, MaxNow + 2, 12, 7) EXCEPT !.stars = StarsCap]
UpstreamAhead ==
    [trending |-> <<Repo(1)>>,
     issuesOf |-> [r \in RepoIds |-> IF r = 1 THEN <<ItemAhead, ItemPR>> ELSE <<>>],
     search |-> <<ItemFreshEdited, ItemOld, ItemNoId>>]
AheadInit ==
    /\ PipelineInit(UpstreamAhead)
    /\ ClientIdle
    /\ AccountIdle
    /\ ServiceIdle

AheadSpec == AheadInit /\ [][Next]_vars

(* Every call in progress goes on: each await resolves or rejects. *)
FairSpec == Spec /\ \A c \in Procs : WF_vars(CycleStep(c))

(* ================= the source client: one call of a method ============== *)
(* ClientSpec follows one call at a time of a method of githubService,     *)
(* from its entry to its return or throw, request by request.              *)
Methods == {"getTrendingRepositories", "getRepositoryIssues", "searchIssues",
            "getUserContributions", "getUserRepositories"}

(* The methods whose body starts with await this.handleRateLimit(). *)
CallsHandleRateLimit(m) ==
    m \in {"getRepositoryIssues", "searchIssues", "getUserRepositories"}

(* The request of the method for the data it is called for. *)
SourceRequest(m, own) ==
    CASE m = "getTrendingRepositories" -> "search.repos"
      [] m = "getRepositoryIssues" -> "issues.listForRepo"
      [] m = "searchIssues" -> "search.issuesAndPullRequests"
      [] m = "getUserContributions" -> "activity.listPublicEventsForUser"
      [] m = "getUserRepositories" ->
             IF own THEN "repos.listForAuthenticatedUser" ELSE "repos.listForUser"

SourceRequests ==
    {SourceRequest(m, own) : m \in Methods, own \in BOOLEAN}

Request(op) == [op |-> op, at |-> clock]

(* Variant: the timer is set with no delay. *)
NoWait(r, t) == 0

(* waitTime of handleRateLimit, line 255: resetTime - new Date(). *)
WaitTime(r, t) == r.reset - t

(* The method issues its next request once handleRateLimit is over, or at  *)
(* once when it does not call it.                                          *)
Proceed(m) ==
    IF m = "getUserRepositories"
    THEN /\ requests' = Append(requests, Request("users.getAuthenticated"))
         /\ cpc' = "awaitCurrentUser"
    ELSE /\ requests' = Append(requests, Request(SourceRequest(m, FALSE)))
         /\ cpc' = "awaitSource"

(* A method is called; the code runs to its first await. *)
Invoke(m) ==
    /\ cpc = "idle"
    /\ method' = m
    /\ IF CallsHandleRateLimit(m)
       THEN /\ requests' = Append(requests, Request("rateLimit.get"))
            /\ cpc' = "awaitRateLimit"
       ELSE Proceed(m)
    /\ UNCHANGED <<clock, rate, timerDue, pipeline, serviceVars, accountVars>>

(* getUserRepositories without a username: line 91 throws, line 131        *)
(* rethrows.                                                               *)
InvokeWithoutUsername ==
    /\ cpc = "idle"
    /\ method' = "getUserRepositories"
    /\ cpc' = "threw"
    /\ UNCHANGED <<clock, rate, timerDue, requests, pipeline, serviceVars, accountVars>>

(* rateLimit.get resolves, lines 252-258: with enough quota left           *)
(* handleRateLimit returns, otherwise it sets the timer.                   *)
RateLimitReturns(remaining, reset) ==
    /\ cpc = "awaitRateLimit"
    /\ rate' = Rate(remaining, reset)
    /\ IF remaining < RateThreshold
       THEN /\ timerDue' = clock + Max(0, WaitTime(rate', clock))
            /\ cpc' = "awaitReset"
            /\ UNCHANGED requests
       ELSE /\ Proceed(method)
            /\ UNCHANGED timerDue
    /\ UNCHANGED <<method, clock, pipeline, serviceVars, accountVars>>

(* rateLimit.get rejects: lines 259-261 log it, handleRateLimit returns. *)
RateLimitThrows ==
    /\ cpc = "awaitRateLimit"
    /\ Proceed(method)
    /\ UNCHANGED <<method, clock, rate, timerDue, pipeline, serviceVars, accountVars>>

(* The timer of line 257 fires and handleRateLimit returns. *)
TimerFires ==
    /\ cpc = "awaitReset"
    /\ clock >= timerDue
    /\ Proceed(method)
    /\ UNCHANGED <<method, clock, rate, timerDue, pipeline, serviceVars, accountVars>>

(* getCurrentUser resolves, lines 98-122: the listing that fits is asked   *)
(* for.                                                                    *)
CurrentUserReturns(own) ==
    /\ cpc = "awaitCurrentUser"
    /\ requests' = Append(requests, Request(SourceRequest(method, own)))
    /\ cpc' = "awaitSource"
    /\ UNCHANGED <<method, clock, rate, timerDue, pipeline, serviceVars, accountVars>>

(* getCurrentUser throws 'Failed to get authenticated user', which has no  *)
(* status 404: line 131 rethrows it.                                       *)
CurrentUserThrows ==
    /\ cpc = "awaitCurrentUser"
    /\ cpc' = "threw"
    /\ UNCHANGED <<method, clock, rate, timerDue, requests, pipeline, serviceVars, accountVars>>

(* The request for the data resolves.  getUserRepositories goes on to      *)
(* processRepositories, which asks for the languages of every repository   *)
(* that names one, all at once.                                            *)
SourceReturns(withLanguage) ==
    /\ cpc = "awaitSource"
    /\ IF method = "getUserRepositories" /\ withLanguage
       THEN /\ requests' = Append(requests, Request("repos.listLanguages"))
            /\ cpc' = "awaitLanguages"
       ELSE /\ cpc' = "returned"
            /\ UNCHANGED requests
    /\ UNCHANGED <<method, clock, rate, timerDue, pipeline, serviceVars, accountVars>>

(* What the catch block of the method does with an error of the request. *)
OnSourceError(m, notFound) ==
    CASE m = "getTrendingRepositories" -> "threw"
      [] m = "getRepositoryIssues" -> "returned"
      [] m = "searchIssues" -> "threw"
      [] m = "getUserContributions" -> "returned"
      [] m = "getUserRepositories" -> IF notFound THEN "returned" ELSE "threw"

(* The request for the data rejects, with status 404 or another error. *)
SourceThrows(notFound) ==
    /\ cpc = "awaitSource"
    /\ cpc' = OnSourceError(method, notFound)
    /\ UNCHANGED <<method, clock, rate, timerDue, requests, pipeline, serviceVars, accountVars>>

(* Promise.all of processRepositories settles; each error is caught. *)
LanguagesSettle ==
    /\ cpc = "awaitLanguages"
    /\ cpc' = "returned"
    /\ UNCHANGED <<method, clock, rate, timerDue, requests, pipeline, serviceVars, accountVars>>

(* The caller has the result; the next call can be followed. *)
CallOver ==
    /\ cpc \in {"returned", "threw"}
    /\ method' = "none"
    /\ cpc' = "idle"
    /\ rate' = NoRate
    /\ timerDue' = 0
    /\ requests' = <<>>
    /\ UNCHANGED <<clock, pipeline, serviceVars, accountVars>>

(* A second passes. *)
ClockTick ==
    /\ clock < MaxClock
    /\ clock' = clock + 1
    /\ UNCHANGED <<method, cpc, rate, timerDue, requests, pipeline, serviceVars, accountVars>>

(* The steps of a call under way. *)
ClientStep ==
    \/ \E remaining \in Remainings, reset \in 0..MaxClock :
           RateLimitReturns(remaining, reset)
    \/ RateLimitThrows
    \/ TimerFires
    \/ \E own \in BOOLEAN : CurrentUserReturns(own)
    \/ CurrentUserThrows
    \/ \E withLanguage \in BOOLEAN : SourceReturns(withLanguage)
    \/ \E notFound \in BOOLEAN : SourceThrows(notFound)
    \/ LanguagesSettle

ClientNext ==
    \/ \E m \in Methods : Invoke(m)
    \/ InvokeWithoutUsername
    \/ ClientStep
    \/ CallOver
    \/ ClockTick

ClientInit ==
    /\ PipelineInit(Upstream1)
    /\ ClientIdle
    /\ AccountIdle
    /\ ServiceIdle

ClientSpec == ClientInit /\ [][ClientNext]_vars

(* A timer that is due fires and a settled request is handled. *)
FairClientSpec == ClientSpec /\ WF_vars(ClientStep)

(* ================= the skill service: text and names ==================== *)

(* A value of the program where its type matters: a string, null or      *)
(* undefined, a number, a function.                                        *)
Str(s) == [kind |-> "string", str |-> s]
Null == [kind |-> "null", str |-> ""]
SomeNumber == [kind |-> "number", str |-> "7"]
ObjectFunction == [kind |-> "function", str |-> "Object"]
Truthy(v) ==
    \/ v.kind \in {"number", "function", "object", "array"}
    \/ v.kind = "string" /\ v.str # ""

(* The call that is followed has not returned. *)
NotCalled == [kind |-> "none", str |-> ""]

CharAt(s, i) == SubSeq(s, i, i)
IndexIn(s, ch) ==
    IF \E i \in 1..Len(s) : CharAt(s, i) = ch
    THEN CHOOSE i \in 1..Len(s) : CharAt(s, i) = ch
    ELSE 0

UpperCase == "ABCDEFGHIJKLMNOPQRSTUVWXYZ"
LowerCase == "abcdefghijklmnopqrstuvwxyz"
LowerChar(ch) ==
    IF IndexIn(UpperCase, ch) > 0 THEN CharAt(LowerCase, IndexIn(UpperCase, ch)) ELSE ch

RECURSIVE toLowerCase(_)
toLowerCase(s) ==
    IF s = "" THEN "" ELSE LowerChar(CharAt(s, 1)) \o toLowerCase(SubSeq(s, 2, Len(s)))

RECURSIVE trimStart(_)
trimStart(s) ==
    IF s # "" /\ IndexIn(" ", CharAt(s, 1)) > 0 THEN trimStart(SubSeq(s, 2, Len(s))) ELSE s
RECURSIVE trimEnd(_)
trimEnd(s) ==
    IF s # "" /\ IndexIn(" ", CharAt(s, Len(s))) > 0
    THEN trimEnd(SubSeq(s, 1, Len(s) - 1))
    ELSE s
trim(s) == trimEnd(trimStart(s))

(* replace(/[^a-z0-9\+\-\.]/g, ''): the characters that stay. *)
SkillNameChars == LowerCase \o "0123456789+-."
RECURSIVE StripPunctuation(_)
StripPunctuation(s) ==
    IF s = "" THEN ""
    ELSE (IF IndexIn(SkillNameChars, CharAt(s, 1)) > 0 THEN CharAt(s, 1) ELSE "")
         \o StripPunctuation(SubSeq(s, 2, Len(s)))

aliases ==
    { <<"js", "javascript">>, <<"ts", "typescript">>, <<"py", "python">>,
      <<"nodejs", "node.js">>, <<"reactjs", "react">>, <<"vuejs", "vue">>,
      <<"angularjs", "angular">>, <<"csharp", "c#">>, <<"cpp", "c++">>,
      <<"py3", "python">>, <<"jupyternotebook", "jupyter">>,
      <<"postgres", "postgresql">>, <<"mongo", "mongodb">>,
      <<"tf", "tensorflow">>, <<"pt", "pytorch">>,
      <<"ghactions", "github actions">>, <<"ci", "continuous integration">>,
      <<"cd", "continuous deployment">> }

(* aliases[key]: an own property, or what the object literal inherits;   *)
(* "constructor" is the one inherited key that the kept characters spell. *)
AliasOf(key) ==
    IF \E a \in aliases : a[1] = key
    THEN Str((CHOOSE a \in aliases : a[1] = key)[2])
    ELSE IF key = "constructor" THEN ObjectFunction ELSE Null

normalizeSkillName(name) ==
    IF ~Truthy(name) \/ name.kind # "string" THEN Null
    ELSE LET normalized == StripPunctuation(trim(toLowerCase(name.str)))
         IN  IF Truthy(AliasOf(normalized)) THEN AliasOf(normalized) ELSE Str(normalized)

(* ---- one call of normalizeSkillName ---- *)
NameChars == {"j", "J", "s", "S", "#", " "}
RECURSIVE Words(_)
Words(n) ==
    IF n = 0 THEN {""}
    ELSE LET shorter == Words(n - 1)
         IN  shorter \cup {w \o c : w \in shorter, c \in NameChars}
RawNames ==
    {Str(w) : w \in Words(MaxNameLen)}
        \cup {Str("Py"), Str("C++"), Str("C#"), Str("CSharp"), Str(" Node.JS "),
              Str("constructor")}
        \cup {Str(a[2]) : a \in aliases}
        \cup {Null, SomeNumber}

NormInit ==
    /\ PipelineInit(Upstream1)
    /\ ClientIdle
    /\ AccountIdle
    /\ args \in {<<name>> : name \in RawNames}
    /\ ret = NotCalled
    /\ skillsMap = <<>>
    /\ userSkills = <<>>
    /\ calls = 0

NormalizeSkillName ==
    /\ calls = 0
    /\ ret' = normalizeSkillName(args[1])
    /\ calls' = calls + 1
    /\ UNCHANGED <<pipeline, clientVars, accountVars, args, skillsMap, userSkills>>

(* The name that came back is passed to normalizeSkillName again. *)
NormalizeAgain ==
    /\ calls = 1
    /\ Truthy(ret)
    /\ args' = <<ret>>
    /\ ret' = normalizeSkillName(ret)
    /\ calls' = calls + 1
    /\ UNCHANGED <<pipeline, clientVars, accountVars, skillsMap, userSkills>>

NormNext == NormalizeSkillName \/ NormalizeAgain
NormSpec == NormInit /\ [][NormNext]_vars

(* ================= the skill service: the skills map ==================== *)

(* A confidence, in sixteenths of a tenth: the arithmetic of addSkill is  *)
(* exact on them for as many halvings as the calls followed here make.    *)
Tenths(n) == 16 * n
Half(n) == CHOOSE h \in {n \div 2} : 2 * h = n

levels == <<"beginner", "intermediate", "advanced", "expert">>

(* Array.prototype.indexOf: positions from 0, -1 when absent. *)
indexOf(array, x) ==
    IF \E i \in 1..Len(array) : array[i] = x
    THEN (CHOOSE i \in 1..Len(array) : array[i] = x) - 1
    ELSE -1

(* skillsMap.get(key): the position of the entry, 0 when there is none. *)
Position(map, key) ==
    IF \E i \in 1..Len(map) : map[i].name = key
    THEN CHOOSE i \in 1..Len(map) : map[i].name = key
    ELSE 0

LatestLevel(existingLevel, level) == level

HigherLevel(existingLevel, level) ==
    IF indexOf(levels, level) > indexOf(levels, existingLevel) THEN level ELSE existingLevel

addSkill(map, name, level, confidence, source) ==
    LET normalizedName == normalizeSkillName(name)
        at == Position(map, normalizedName)
    IN  IF ~Truthy(normalizedName) THEN map
        ELSE IF at > 0
        THEN [map EXCEPT ![at] =
                 [@ EXCEPT !.confidence = Half(@ + confidence),
                           !.level = HigherLevel(@, level)]]
        ELSE Append(map, [name |-> normalizedName, level |-> level,
                          confidence |-> confidence, source |-> source])

(* ---- calls of addSkill on one map ---- *)
MergeInit ==
    /\ PipelineInit(Upstream1)
    /\ ClientIdle
    /\ AccountIdle
    /\ args = <<>>
    /\ ret = <<>>
    /\ skillsMap = <<>>
    /\ userSkills = <<>>
    /\ calls = 0

AddSkill(name, level, confidence, source) ==
    /\ calls < MaxAdds
    /\ args' = [name |-> name, level |-> level, confidence |-> confidence, source |-> source]
    /\ skillsMap' = addSkill(skillsMap, name, level, confidence, source)
    /\ calls' = calls + 1
    /\ UNCHANGED <<pipeline, clientVars, accountVars, ret, userSkills>>

MergeNext ==
    \E name \in {Str("JS"), Str("js"), Str("React"), Str("#")},
       i \in 1..Len(levels),
       confidence \in {Tenths(4), Tenths(10)},
       source \in {"repository", "contribution"} :
        AddSkill(name, levels[i], confidence, source)
MergeSpec == MergeInit /\ [][MergeNext]_vars

(* ================= the skill service: the extractor ===================== *)

Arr(items) == [kind |-> "array", items |-> items]
Strs(words) == [i \in DOMAIN words |-> Str(words[i])]

(* String.prototype.includes *)
includes(text, word) ==
    \E i \in 1..(Len(text) - Len(word) + 1) : SubSeq(text, i, i + Len(word) - 1) = word

frameworks ==
    << "react", "vue", "angular", "svelte", "nodejs", "express", "fastapi",
       "django", "flask", "rails", "spring", "laravel", "symfony",
       "tensorflow", "pytorch", "scikit-learn", "pandas", "numpy",
       "docker", "kubernetes", "aws", "azure", "gcp", "mongodb",
       "postgresql", "mysql", "redis", "elasticsearch", "graphql",
       "nextjs", "nuxtjs", "gatsby", "webpack", "vite", "tailwindcss",
       "typescript", "javascript", "java", "csharp", "c++", "go", "rust",
       "php", "ruby", "swift", "objective-c", "scala", "haskell", "matlab",
       "jupyter", "notebook", "firebase", "supabase", "rabbitmq", "celery",
       "airflow", "spark", "hadoop", "bigquery", "redshift", "snowflake",
       "heroku", "vercel", "netlify", "digitalocean", "linode", "openai",
       "huggingface", "langchain", "llama", "transformers", "grpc", "protobuf",
       "eslint", "prettier", "storybook", "jest", "mocha", "chai", "cypress",
       "playwright", "puppeteer", "selenium", "circleci", "github actions",
       "travis", "jenkins", "ansible", "terraform", "pulumi", "prometheus",
       "grafana", "sentry", "datadog", "newrelic", "rollbar", "logrocket" >>

extractFrameworksFromText(text) ==
    LET lowerText == toLowerCase(text)
    IN  SelectSeq(frameworks, LAMBDA framework : includes(lowerText, framework))

techKeywords ==
    << "api", "database", "frontend", "backend", "ui", "testing",
       "deployment", "security", "performance", "bug", "feature" >>

extractSkillsFromCommitMessage(message) ==
    LET lowerMessage == toLowerCase(message)
    IN  SelectSeq(techKeywords, LAMBDA keyword : includes(lowerMessage, keyword))

patterns ==
    << <<"web", <<"html", "css", "javascript">> >>,
       <<"api", <<"backend", "api">> >>,
       <<"mobile", <<"mobile development">> >>,
       <<"data", <<"data analysis", "python">> >>,
       <<"ml", <<"machine learning", "python">> >>,
       <<"bot", <<"automation", "scripting">> >> >>

RECURSIVE inferFrom(_, _)
inferFrom(lowerName, entries) ==
    IF entries = <<>> THEN <<>>
    ELSE (IF includes(lowerName, Head(entries)[1]) THEN Head(entries)[2] ELSE <<>>)
         \o inferFrom(lowerName, Tail(entries))
inferSkillsFromRepoName(repoName) == inferFrom(toLowerCase(repoName), patterns)

(* names.forEach(name => this.addSkill(map, name, level, confidence, source)) *)
RECURSIVE addEach(_, _, _, _, _)
addEach(map, names, level, confidence, source) ==
    IF names = <<>> THEN map
    ELSE addEach(addSkill(map, Head(names), level, confidence, source),
                 Tail(names), level, confidence, source)

RECURSIVE addCommits(_, _)
addCommits(map, commits) ==
    IF commits = <<>> THEN map
    ELSE addCommits(addEach(map, Strs(extractSkillsFromCommitMessage(Head(commits).message.str)),
                            "intermediate", Tenths(5), "contribution"),
                    Tail(commits))

RECURSIVE analyzeContributions(_, _)
analyzeContributions(map, contributions) ==
    IF contributions = <<>> THEN map
    ELSE LET event == Head(contributions)
             pushed == IF event.type = "PushEvent" /\ event.payload.commits.kind = "array"
                       THEN addCommits(map, event.payload.commits.items)
                       ELSE map
             named == IF event.repo.kind = "object" /\ Truthy(event.repo.name)
                      THEN addEach(pushed, Strs(inferSkillsFromRepoName(event.repo.name.str)),
                                   "beginner", Tenths(4), "contribution")
                      ELSE pushed
         IN  analyzeContributions(named, Tail(contributions))

(* for (const [skillName, skillData] of contributionSkills) this.addSkill(...) *)
RECURSIVE addContributionSkills(_, _)
addContributionSkills(map, found) ==
    IF found = <<>> THEN map
    ELSE addContributionSkills(
             addSkill(map, Head(found).name, Head(found).level, Head(found).confidence,
                      "contribution"),
             Tail(found))

calculateLanguageLevel(languageData) ==
    IF languageData.repoCount >= 10 /\ languageData.totalSize > 10000 THEN "expert"
    ELSE IF languageData.repoCount >= 5 /\ languageData.totalSize > 5000 THEN "advanced"
    ELSE IF languageData.repoCount >= 3 /\ languageData.totalSize > 1000 THEN "intermediate"
    ELSE "beginner"

(* languages.get(lang): the position of the entry, 0 when there is none. *)
LanguageAt(languages, lang) ==
    IF \E i \in 1..Len(languages) : languages[i].key = lang
    THEN CHOOSE i \in 1..Len(languages) : languages[i].key = lang
    ELSE 0

(* One turn of the loop over the repositories, on [skills, languages]. *)
ProcessRepository(acc, repo) ==
    IF ~Truthy(repo) THEN acc
    ELSE LET lang == toLowerCase(repo.language.str)
             at == LanguageAt(acc.languages, lang)
             before == IF at > 0 THEN acc.languages[at]
                       ELSE [key |-> lang, name |-> repo.language.str, repoCount |-> 0,
                             totalSize |-> 0, linesOfCode |-> 0]
             currentLang == [before EXCEPT !.repoCount = @ + 1, !.totalSize = @ + repo.size]
             languages == IF ~Truthy(repo.language) THEN acc.languages
                          ELSE IF at > 0 THEN [acc.languages EXCEPT ![at] = currentLang]
                          ELSE Append(acc.languages, currentLang)
             withLanguage == IF ~Truthy(repo.language) THEN acc.skills
                             ELSE addSkill(acc.skills, repo.language,
                                           calculateLanguageLevel(currentLang),
                                           Tenths(8), "repository")
             withTopics == IF repo.topics.kind = "array"
                           THEN addEach(withLanguage, repo.topics.items,
                                        "intermediate", Tenths(6), "repository")
                           ELSE withLanguage
             text == repo.name \o " " \o (IF Truthy(repo.description) THEN repo.description.str ELSE "")
         IN  [skills |-> addEach(withTopics, Strs(extractFrameworksFromText(text)),
                                 "intermediate", Tenths(7), "repository"),
              languages |-> languages]

RECURSIVE ProcessRepositories(_, _)
ProcessRepositories(acc, repositories) ==
    IF repositories = <<>> THEN acc
    ELSE ProcessRepositories(ProcessRepository(acc, Head(repositories)), Tail(repositories))

defaults == <<"javascript", "html", "css", "git">>
addDefaultSkills(map) == addEach(map, Strs(defaults), "beginner", Tenths(5), "default")

(* A percentage as the fraction num / den. *)
Fraction(num, den) == [num |-> num, den |-> den]

getDefaultSkillset ==
    [skills |-> [i \in 1..Len(defaults) |->
                    [name |-> Str(defaults[i]), level |-> "beginner",
                     confidence |-> Tenths(5), source |-> "default"]],
     languages |-> << [name |-> "JavaScript", percentage |-> Fraction(40, 1), linesOfCode |-> 0],
                      [name |-> "HTML", percentage |-> Fraction(30, 1), linesOfCode |-> 0],
                      [name |-> "CSS", percentage |-> Fraction(30, 1), linesOfCode |-> 0] >>]

normalizeSkillLevel(skill) ==
    LET idx == indexOf(levels, skill.level)
        adjusted == IF skill.confidence < Tenths(3) THEN 0
                    ELSE IF skill.confidence < Tenths(6) THEN Min(1, idx)
                    ELSE IF skill.confidence > Tenths(9) THEN Max(idx, 2)
                    ELSE idx
    IN  IF adjusted \in 0..(Len(levels) - 1) THEN levels[adjusted + 1] ELSE "beginner"

RECURSIVE SumSizes(_)
SumSizes(languages) ==
    IF languages = <<>> THEN 0 ELSE Head(languages).totalSize + SumSizes(Tail(languages))

(* Where the body of the try block throws a TypeError. *)
EventThrows(event) ==
    \/ ~Truthy(event)
    \/ event.type = "PushEvent" /\ event.payload.kind # "object"
    \/ /\ event.type = "PushEvent"
       /\ event.payload.commits.kind = "array"
       /\ \E i \in 1..Len(event.payload.commits.items) :
              event.payload.commits.items[i].message.kind # "string"
    \/ event.repo.kind = "object" /\ Truthy(event.repo.name) /\ event.repo.name.kind # "string"

Throws(user, repositories, contributions) ==
    \/ repositories.kind # "array"
    \/ /\ Len(repositories.items) = 0
       /\ Truthy(user.bio)
       /\ user.bio.kind # "string"
    \/ \E i \in 1..Len(repositories.items) :
           /\ Truthy(repositories.items[i])
           /\ Truthy(repositories.items[i].language)
           /\ repositories.items[i].language.kind # "string"
    \/ /\ contributions.kind = "array"
       /\ \E i \in 1..Len(contributions.items) : EventThrows(contributions.items[i])

extractUserSkills(user, repositories, contributions) ==
    IF Throws(user, repositories, contributions) THEN getDefaultSkillset
    ELSE LET fromBio == IF Len(repositories.items) = 0 /\ Truthy(user.bio)
                        THEN addEach(<<>>, Strs(extractFrameworksFromText(user.bio.str)),
                                     "beginner", Tenths(6), "profile")
                        ELSE <<>>
             processed == ProcessRepositories([skills |-> fromBio, languages |-> <<>>],
                                              repositories.items)
             contributed == IF contributions.kind = "array" /\ Len(contributions.items) > 0
                            THEN addContributionSkills(processed.skills,
                                     analyzeContributions(<<>>, contributions.items))
                            ELSE processed.skills
             skills == IF Len(contributed) = 0 THEN addDefaultSkills(contributed) ELSE contributed
             totalLanguageSize == SumSizes(processed.languages)
         IN  [skills |-> [i \in 1..Len(skills) |->
                             [skills[i] EXCEPT !.level = normalizeSkillLevel(skills[i]),
                                               !.confidence = Min(@, Tenths(10))]],
              languages |-> [i \in 1..Len(processed.languages) |->
                                [name |-> processed.languages[i].name,
                                 repoCount |-> processed.languages[i].repoCount,
                                 totalSize |-> processed.languages[i].totalSize,
                                 linesOfCode |-> processed.languages[i].linesOfCode,
                                 percentage |-> IF totalLanguageSize > 0
                                                THEN Fraction(processed.languages[i].totalSize * 100,
                                                              totalLanguageSize)
                                                ELSE Fraction(0, 1)]]]

(* ---- one call of extractUserSkills ---- *)
SeqsUpTo(S, n) == UNION {[1..k -> S] : k \in 0..n}

Users ==
    {[username |-> "octocat", bio |-> bio] :
        bio \in {Null, Str("React and Docker fan"), SomeNumber}}

RepoOdd ==
    [kind |-> "object", name |-> "odd", description |-> Null,
     language |-> SomeNumber, size |-> 1, topics |-> Null]
Repos ==
    { [kind |-> "object", name |-> "shop-api", description |-> Str("Express server"),
       language |-> Str("JavaScript"), size |-> 30,
       topics |-> Arr(<<Str("JS"), Str("React")>>)],
      [kind |-> "object", name |-> "game", description |-> Str("A CSharp engine"),
       language |-> Str("C#"), size |-> 0, topics |-> Null],
      [kind |-> "object", name |-> "notes", description |-> Null,
       language |-> Str("TypeScript"), size |-> 10, topics |-> Arr(<<SomeNumber>>)],
      RepoOdd, Null }
RepositoryLists == {Null} \cup {Arr(list) : list \in SeqsUpTo(Repos, MaxRepos)}

EventOdd ==
    [kind |-> "object", type |-> "PushEvent", payload |-> Null, repo |-> Null]
Events ==
    { [kind |-> "object", type |-> "PushEvent",
       payload |-> [kind |-> "object",
                    commits |-> Arr(<<[message |-> Str("Fix API bug")]>>)],
       repo |-> [kind |-> "object", name |-> Str("octocat/data-ml")]],
      [kind |-> "object", type |-> "WatchEvent", payload |-> Null,
       repo |-> [kind |-> "object", name |-> Str("octocat/web-bot")]],
      EventOdd }
ContributionLists == {Null} \cup {Arr(list) : list \in SeqsUpTo(Events, MaxEvents)}

ExtractInit ==
    /\ PipelineInit(Upstream1)
    /\ ClientIdle
    /\ AccountIdle
    /\ args \in Users \X RepositoryLists \X ContributionLists
    /\ ret = NotCalled
    /\ skillsMap = <<>>
    /\ userSkills = <<>>
    /\ calls = 0

ExtractUserSkills ==
    /\ calls = 0
    /\ ret' = extractUserSkills(args[1], args[2], args[3])
    /\ calls' = calls + 1
    /\ UNCHANGED <<pipeline, clientVars, accountVars, args, skillsMap, userSkills>>

ExtractSpec == ExtractInit /\ [][ExtractUserSkills]_vars

(* ================= required skills of an item, skills of a profile ====== *)

keywordPatterns ==
    << << <<"react", "vue", "angular", "svelte">>, "frontend" >>,
       << <<"node", "express", "django", "flask">>, "backend" >>,
       << <<"mongodb", "mysql", "postgresql", "sqlite">>, "database" >>,
       << <<"tensorflow", "pytorch", "scikit-learn", "keras">>, "machine learning" >>,
       << <<"docker", "kubernetes", "aws", "azure", "gcp">>, "cloud" >>,
       << <<"git", "github", "gitlab">>, "version control" >>,
       << <<"scrum", "kanban", "agile">>, "project management" >>,
       << <<"photoshop", "illustrator", "figma">>, "design" >>,
       << <<"excel", "csv", "data analysis">>, "data analysis" >> >>

(* pattern.test(text) for an alternation of plain words under the i flag *)
PatternTest(alternatives, text) ==
    \E i \in 1..Len(alternatives) : includes(toLowerCase(text), alternatives[i])

(* Set.prototype.add, the set kept in insertion order *)
SetAdd(set, x) == IF \E i \in 1..Len(set) : set[i] = x THEN set ELSE Append(set, x)

RECURSIVE addKeywordSkills(_, _, _)
addKeywordSkills(skills, text, remaining) ==
    IF remaining = <<>> THEN skills
    ELSE addKeywordSkills(
             IF PatternTest(Head(remaining)[1], text)
             THEN SetAdd(skills, Str(Head(remaining)[2])) ELSE skills,
             text, Tail(remaining))

(* label.name: a property of an object; of a string it is undefined *)
NameOf(label) == IF label.kind = "object" THEN label.name ELSE Null

RECURSIVE addLabelSkills(_, _)
addLabelSkills(skills, labels) ==
    IF labels = <<>> THEN skills
    ELSE LET normalizedLabel == normalizeSkillName(NameOf(Head(labels)))
         IN  addLabelSkills(IF Truthy(normalizedLabel) THEN SetAdd(skills, normalizedLabel)
                            ELSE skills,
                            Tail(labels))

extractRequiredSkills(text, labels, repoLanguage) ==
    LET labelled == addLabelSkills(addKeywordSkills(<<>>, text, keywordPatterns), labels)
        langSkill == normalizeSkillName(repoLanguage)
    IN  IF Truthy(repoLanguage) /\ Truthy(langSkill) THEN SetAdd(labelled, langSkill)
        ELSE labelled

(* const labels = issue.labels.map(l => l.name.toLowerCase()) *)
LowerLabels(labels) == [i \in DOMAIN labels |-> Str(toLowerCase(labels[i].name.str))]

(* user.skills.findIndex(s => s.name.toLowerCase() === name.toLowerCase()): *)
(* the first entry that matches or whose name is not a string; 0 if none   *)
FirstHit(skills, name) ==
    LET hits == {i \in 1..Len(skills) :
                    \/ skills[i].name.kind # "string"
                    \/ toLowerCase(skills[i].name.str) = toLowerCase(name)}
    IN  IF hits = {} THEN 0 ELSE CHOOSE i \in hits : \A j \in hits : i <= j

(* The arguments of analyzeUserSkills' call of the extractor. *)
ProfileInputs ==
    {<<user, Arr(<<repo>>), Null>> : user \in {u \in Users : u.bio = Null}, repo \in Repos}
        \cup {<<user, Arr(<<>>), Arr(<<event>>)>> :
                 user \in {u \in Users : u.bio = Null}, event \in Events}

ProfileInit ==
    /\ PipelineInit(Upstream1)
    /\ ClientIdle
    /\ AccountIdle
    /\ args = [op |-> "none"]
    /\ ret = NotCalled
    /\ skillsMap = <<>>
    /\ userSkills = <<>>
    /\ calls = 0

(* analyzeUserSkills: the extractor's skills replace the profile's *)
AnalyzeUserSkills(input) ==
    /\ calls < MaxOps
    /\ args' = [op |-> "analyze"]
    /\ userSkills' = extractUserSkills(input[1], input[2], input[3]).skills
    /\ calls' = calls + 1
    /\ UNCHANGED <<pipeline, clientVars, accountVars, ret, skillsMap>>

(* POST /skills with a body that passes validation; keepsName is whether  *)
(* the spread of the stored subdocument carries its name.                  *)
PostSkill(name, level, keepsName) ==
    /\ calls < MaxOps
    /\ trim(name) = name /\ name # ""
    /\ args' = [op |-> "post", name |-> name, level |-> level]
    /\ LET existingSkillIndex == FirstHit(userSkills, name)
       IN  IF existingSkillIndex = 0
           THEN userSkills' = Append(userSkills,
                                  [name |-> Str(toLowerCase(trim(name))), level |-> level,
                                   confidence |-> Tenths(10), source |-> "manual"])
           ELSE IF userSkills[existingSkillIndex].name.kind # "string"
           THEN userSkills' = userSkills
           ELSE userSkills' =
                    [userSkills EXCEPT ![existingSkillIndex] =
                        [name |-> IF keepsName THEN @.name ELSE Null, level |-> level,
                         confidence |-> Tenths(10), source |-> "manual"]]
    /\ calls' = calls + 1
    /\ UNCHANGED <<pipeline, clientVars, accountVars, ret, skillsMap>>

(* DELETE /skills/:skillName, for a name of letters and digits *)
DeleteSkill(skillName) ==
    /\ calls < MaxOps
    /\ args' = [op |-> "delete", name |-> skillName]
    /\ userSkills' = SelectSeq(userSkills,
                         LAMBDA s : ~(/\ s.name.kind = "string"
                                      /\ toLowerCase(s.name.str) = toLowerCase(skillName)))
    /\ calls' = calls + 1
    /\ UNCHANGED <<pipeline, clientVars, accountVars, ret, skillsMap>>

(* analyzeIssueContent: the required skills that the item is stored with *)
AnalyzeIssueContent(text, labels, repoLanguage) ==
    /\ calls < MaxOps
    /\ args' = [op |-> "analyzeIssue"]
    /\ ret' = Arr(extractRequiredSkills(text, LowerLabels(labels), repoLanguage))
    /\ calls' = calls + 1
    /\ UNCHANGED <<pipeline, clientVars, accountVars, userSkills, skillsMap>>

ProfileNext ==
    \/ \E input \in ProfileInputs : AnalyzeUserSkills(input)
    \/ \E name \in {"JS", "javascript", "React", "C#"}, level \in {"beginner", "expert"},
          keepsName \in BOOLEAN : PostSkill(name, level, keepsName)
    \/ \E skillName \in {"javascript", "JS"} : DeleteSkill(skillName)
    \/ \E text \in {"Fix React crash in git hook", "Update docs"},
          labels \in {<<>>, <<[kind |-> "object", name |-> Str("Bug")],
                             [kind |-> "object", name |-> Str("JavaScript")]>>},
          repoLanguage \in {Null, Str("JavaScript"), Str("C#")} :
            AnalyzeIssueContent(text, labels, repoLanguage)
ProfileSpec == ProfileInit /\ [][ProfileNext]_vars

(* ================= the skill service: analysis of an item =============== *)

(* Variant: the text is looked at first and the labels never. *)
difficultyFromText(text, labels) ==
    LET lowercaseText == toLowerCase(text)
    IN  IF \/ includes(lowercaseText, "easy")
           \/ includes(lowercaseText, "simple")
           \/ includes(lowercaseText, "beginner") THEN "beginner"
        ELSE IF includes(lowercaseText, "advanced") \/ includes(lowercaseText, "complex")
        THEN "advanced"
        ELSE "intermediate"

determineDifficulty(text, labels) ==
    LET lowercaseText == toLowerCase(text)
    IN  IF \/ indexOf(labels, Str("good first issue")) >= 0
           \/ indexOf(labels, Str("good-first-issue")) >= 0 THEN "beginner"
        ELSE IF indexOf(labels, Str("help wanted")) >= 0 THEN "intermediate"
        ELSE IF \/ includes(lowercaseText, "easy")
                \/ includes(lowercaseText, "simple")
                \/ includes(lowercaseText, "beginner") THEN "beginner"
        ELSE IF includes(lowercaseText, "advanced") \/ includes(lowercaseText, "complex")
        THEN "advanced"
        ELSE "intermediate"

(* text.split(' ').length *)
RECURSIVE SplitLength(_)
SplitLength(text) ==
    IF text = "" THEN 1
    ELSE (IF SubSeq(text, 1, 1) = " " THEN 1 ELSE 0) + SplitLength(SubSeq(text, 2, Len(text)))

estimateHours(difficulty, text, labels) ==
    LET byLevel == IF difficulty = "beginner" THEN 2
                   ELSE IF difficulty = "advanced" THEN 6
                   ELSE IF difficulty = "expert" THEN 8
                   ELSE 4
        baseHours == IF SplitLength(text) > 300 THEN byLevel + 2
                     ELSE IF SplitLength(text) < 50 THEN byLevel - 1
                     ELSE byLevel
    IN  Max(1, Min(baseHours, 24))

analyzeIssueContent(issue, repoInfo) ==
    IF \/ issue.labels.kind # "array"
       \/ \E i \in 1..Len(issue.labels.items) : NameOf(issue.labels.items[i]).kind # "string"
    THEN [difficulty |-> "intermediate", requiredSkills |-> <<>>, estimatedHours |-> 4]
    ELSE LET textContent == issue.title \o " "
                                \o (IF Truthy(issue.body) THEN issue.body.str ELSE "")
             labels == LowerLabels(issue.labels.items)
             difficulty == determineDifficulty(textContent, labels)
         IN  [difficulty |-> difficulty,
              requiredSkills |-> extractRequiredSkills(textContent, labels, repoInfo.language),
              estimatedHours |-> estimateHours(difficulty, textContent, labels)]

(* ---- one call of analyzeIssueContent ---- *)
Label(name) == [kind |-> "object", name |-> Str(name)]
LabelLists ==
    {Null} \cup
    {Arr(list) :
        list \in UNION {[1..k -> {Label("Good First Issue"), Label("good-first-issue"),
                                  Label("help wanted"), Label("Python")}] :
                           k \in 0..MaxLabels}}

AnalyzeInit ==
    /\ PipelineInit(Upstream1)
    /\ ClientIdle
    /\ AccountIdle
    /\ args \in [title : {"Fix crash", "Advanced React refactor", "Easy docs fix"},
                 body : {Null, Str("complex git setup")},
                 labels : LabelLists] \X [language : {Null, Str("JavaScript")}]
    /\ ret = NotCalled
    /\ skillsMap = <<>>
    /\ userSkills = <<>>
    /\ calls = 0

AnalyzeIssue ==
    /\ calls = 0
    /\ ret' = analyzeIssueContent(args[1], args[2])
    /\ calls' = calls + 1
    /\ UNCHANGED <<pipeline, clientVars, accountVars, args, skillsMap, userSkills>>

AnalyzeSpec == AnalyzeInit /\ [][AnalyzeIssue]_vars

(* ===================== the skill service: the scorer ===================== *)

(* Scores are exact: a factor is a whole number of ScoreUnit-ths, a weight a
   whole number of tenths, the score the fraction totalScore / maxScore.
   Times are whole days. *)
DecayDays == 30
ScoreUnit == 100 * DecayDays
weights == [language |-> 4, skill |-> 3, difficulty |-> 2, freshness |-> 1]
Exact(n, d) == CHOOSE q \in {n \div d} : q * d = n

(* userLanguages.find(lang => lang.name.toLowerCase() === issueLanguage.toLowerCase()) *)
findLanguage(userLanguages, issueLanguage) ==
    LET hits == {i \in DOMAIN userLanguages :
                    toLowerCase(userLanguages[i].name) = toLowerCase(issueLanguage.str)}
    IN  IF hits = {} THEN Null
        ELSE userLanguages[CHOOSE i \in hits : \A j \in hits : i <= j]

languageNameMatch(userLanguages, issueLanguage) ==
    IF ~Truthy(issueLanguage) THEN 0
    ELSE IF findLanguage(userLanguages, issueLanguage) = Null THEN 0
    ELSE ScoreUnit
calculateLanguageMatchScore(userLanguages, issueLanguage) ==
    IF ~Truthy(issueLanguage) THEN 0
    ELSE LET matchingLang == findLanguage(userLanguages, issueLanguage)
         IN  IF matchingLang = Null THEN 0
             ELSE Min(Exact(matchingLang.percentage.num * ScoreUnit,
                            matchingLang.percentage.den * 100), ScoreUnit)

calculateSkillMatchScore(skills, requiredSkills) ==
    LET matchCount == Cardinality({i \in DOMAIN requiredSkills :
                          \E k \in DOMAIN skills :
                              toLowerCase(skills[k].name) = toLowerCase(requiredSkills[i])})
    IN  IF Len(requiredSkills) > 0
        THEN Exact(matchCount * ScoreUnit, Len(requiredSkills))
        ELSE 0

difficultyAlwaysCounts(userLevels, issueDifficulty) ==
    IF ~Truthy(issueDifficulty) THEN 0 ELSE ScoreUnit
calculateDifficultyMatchScore(userLevels, issueDifficulty) ==
    IF ~Truthy(issueDifficulty) THEN 0
    ELSE IF \E i \in DOMAIN userLevels : userLevels[i] = issueDifficulty.str
         THEN ScoreUnit ELSE 0

(* Math.max(0, 1 - ageInDays / 30): nothing caps it from above. *)
calculateFreshnessScore(createdAt, t) ==
    IF ~Truthy(createdAt) THEN 0
    ELSE LET ageInDays == t - createdAt.day
         IN  Max(0, ScoreUnit - Exact(ageInDays * ScoreUnit, DecayDays))

(* user.preferences?.difficultLevels || [] *)
difficultLevels(user) ==
    IF Truthy(user.preferences) THEN user.preferences.difficultLevels ELSE <<>>

calculateMatchScore(user, issue, t) ==
    LET byLanguage == Truthy(issue.repository.language)
        bySkill == Len(issue.requiredSkills) > 0
        byDifficulty == Truthy(issue.difficulty)
        languageScore ==
            calculateLanguageMatchScore(user.languages, issue.repository.language)
        skillScore == calculateSkillMatchScore(user.skills, issue.requiredSkills)
        difficultyScore ==
            calculateDifficultyMatchScore(difficultLevels(user), issue.difficulty)
        freshnessScore == calculateFreshnessScore(issue.createdAt, t)
        totalScore ==
              (IF byLanguage THEN languageScore * weights.language ELSE 0)
            + (IF bySkill THEN skillScore * weights.skill ELSE 0)
            + (IF byDifficulty THEN difficultyScore * weights.difficulty ELSE 0)
            + freshnessScore * weights.freshness
        maxScore ==
              (IF byLanguage THEN weights.language ELSE 0)
            + (IF bySkill THEN weights.skill ELSE 0)
            + (IF byDifficulty THEN weights.difficulty ELSE 0)
            + weights.freshness
    IN  IF maxScore > 0 THEN Fraction(totalScore, maxScore * ScoreUnit)
        ELSE Fraction(0, 1)

(* matchedSkills.join(', ') *)
RECURSIVE join(_)
join(words) ==
    IF words = <<>> THEN ""
    ELSE IF Len(words) = 1 THEN words[1]
    ELSE words[1] \o ", " \o join(Tail(words))

getMatchReasons(user, issue) ==
    LET langMatch ==
            IF Truthy(issue.repository.language)
            THEN findLanguage(user.languages, issue.repository.language)
            ELSE Null
        matchedSkills ==
            SelectSeq(issue.requiredSkills,
                      LAMBDA required : \E k \in DOMAIN user.skills :
                          toLowerCase(user.skills[k].name) = toLowerCase(required))
        preferred ==
            /\ Truthy(issue.difficulty)
            /\ Truthy(user.preferences)
            /\ \E i \in DOMAIN user.preferences.difficultLevels :
                   user.preferences.difficultLevels[i] = issue.difficulty.str
    IN    (IF langMatch # Null
           THEN << "Matches your " \o langMatch.name \o " experience" >> ELSE <<>>)
       \o (IF Len(matchedSkills) > 0
           THEN << "Matches your skills: " \o join(matchedSkills) >> ELSE <<>>)
       \o (IF preferred THEN << "Matches your preferred difficulty level" >> ELSE <<>>)

Created(day) == [kind |-> "object", day |-> day]
Usage(name, percentage) ==
    [name |-> name, percentage |-> Fraction(percentage, 1), linesOfCode |-> 0]
Known(name) ==
    [name |-> name, level |-> "advanced", confidence |-> Tenths(9), source |-> "repository"]

(* The recommendations route scores one item for one profile at time Today. *)
Today == 40
ScoreInit ==
    /\ PipelineInit(Upstream1)
    /\ ClientIdle
    /\ AccountIdle
    /\ args \in
         [languages : {<<>>, <<Usage("python", 80)>>, <<Usage("Python", 0)>>,
                       <<Usage("Go", 100), Usage("python", 50)>>},
          skills : {<<>>, <<Known("python")>>, <<Known("Python"), Known("docker")>>},
          preferences : {Null, [kind |-> "object", difficultLevels |-> <<>>],
                         [kind |-> "object", difficultLevels |-> <<"intermediate">>]}]
         \X
         [repository : [language : {Null, Str("python"), Str("Rust")}],
          requiredSkills : {<<>>, <<"python">>, <<"python", "docker">>},
          difficulty : {Null, Str("intermediate"), Str("advanced")},
          createdAt : {Null, Created(Today - 40), Created(Today - 15),
                       Created(Today), Created(Today + 6)}]
         \X {Today}
    /\ ret = NotCalled
    /\ skillsMap = <<>>
    /\ userSkills = <<>>
    /\ calls = 0

CalculateMatchScore ==
    /\ calls = 0
    /\ ret' = [score |-> calculateMatchScore(args[1], args[2], args[3]),
               reasons |-> NotCalled]
    /\ calls' = calls + 1
    /\ UNCHANGED <<pipeline, clientVars, accountVars, args, skillsMap, userSkills>>

GetMatchReasons ==
    /\ calls = 1
    /\ ret' = [ret EXCEPT !.reasons = Arr(getMatchReasons(args[1], args[2]))]
    /\ calls' = calls + 1
    /\ UNCHANGED <<pipeline, clientVars, accountVars, args, skillsMap, userSkills>>

ScoreNext == CalculateMatchScore \/ GetMatchReasons
ScoreSpec == ScoreInit /\ [][ScoreNext]_vars

(* ========================= the OAuth callback ============================ *)

(* Two accounts authorize at the same time; each callback carries the code
   of its own account. The access token of an account and its GitHub id are
   written as the account itself; "app" is the token of the configuration. *)
MaxLogins == 2
Callers == {"A", "B"}

NoCallback ==
    [at |-> "idle", access_token |-> "none", auth |-> "none", githubUser |-> "none",
     found |-> FALSE, session |-> "none", logins |-> 0]

(* A continuation runs when it is the oldest one ready; a response of the
   network or of the database is delivered only when no continuation is
   ready: an await whose promise is settled resumes before the next event. *)
Undrained == TRUE
Drained == jobs = <<>>

(* GET /github/callback up to its first await: axios.post is under way. *)
Callback(c) ==
    /\ Drained
    /\ cb[c].at \in {"idle", "done"}
    /\ cb[c].logins < MaxLogins
    /\ cb' = [cb EXCEPT ![c] = [NoCallback EXCEPT !.at = "exchange",
                                                  !.logins = cb[c].logins + 1]]
    /\ UNCHANGED <<pipeline, clientVars, serviceVars, octokit, jobs, users,
                   savedIssues, saves>>

(* The response of access_token arrives: getAccessToken is ready to go on. *)
ExchangeResponds(c) ==
    /\ Drained
    /\ cb[c].at = "exchange"
    /\ cb' = [cb EXCEPT ![c].at = "posted"]
    /\ jobs' = Append(jobs, <<c, "getAccessToken">>)
    /\ UNCHANGED <<pipeline, clientVars, serviceVars, octokit, users, savedIssues, saves>>

(* getAccessToken after its await: the client of the service is rebuilt with
   the token received, and the callback is ready to go on. *)
GetAccessToken(c) ==
    /\ jobs # <<>>
    /\ Head(jobs) = <<c, "getAccessToken">>
    /\ octokit' = c
    /\ cb' = [cb EXCEPT ![c].at = "exchanged"]
    /\ jobs' = Append(Tail(jobs), <<c, "callback">>)
    /\ UNCHANGED <<pipeline, clientVars, serviceVars, users, savedIssues, saves>>

(* The callback after its first await: getCurrentUser asks for the user with
   the client the service holds now. *)
GetCurrentUser(c) ==
    /\ jobs # <<>>
    /\ Head(jobs) = <<c, "callback">>
    /\ cb' = [cb EXCEPT ![c].at = "identify", ![c].access_token = c,
                        ![c].auth = octokit]
    /\ jobs' = Tail(jobs)
    /\ UNCHANGED <<pipeline, clientVars, serviceVars, octokit, users, savedIssues, saves>>

(* users.getAuthenticated answers with the account of the token it was asked
   with; the callback goes on to User.findOne. *)
Authenticated(c) ==
    /\ Drained
    /\ cb[c].at = "identify"
    /\ cb' = [cb EXCEPT ![c].at = "find", ![c].githubUser = cb[c].auth]
    /\ UNCHANGED <<pipeline, clientVars, serviceVars, octokit, jobs, users,
                   savedIssues, saves>>

(* User.findOne returns; the callback goes on to User.create or user.save. *)
UserFindOne(c) ==
    /\ Drained
    /\ cb[c].at = "find"
    /\ cb' = [cb EXCEPT ![c].at = "store",
                        ![c].found = \E u \in users : u.githubId = cb[c].githubUser]
    /\ UNCHANGED <<pipeline, clientVars, serviceVars, octokit, jobs, users,
                   savedIssues, saves>>

(* User.create or user.save returns; jwt.sign makes the session of the record. *)
UserStored(c) ==
    /\ Drained
    /\ cb[c].at = "store"
    /\ users' = {u \in users : u.githubId # cb[c].githubUser}
                    \cup {[githubId |-> cb[c].githubUser,
                           githubToken |-> cb[c].access_token]}
    /\ cb' = [cb EXCEPT ![c].at = "done", ![c].session = cb[c].githubUser]
    /\ UNCHANGED <<pipeline, clientVars, serviceVars, octokit, jobs, savedIssues, saves>>

AuthInit ==
    /\ PipelineInit(Upstream1)
    /\ ClientIdle
    /\ ServiceIdle
    /\ octokit = "app"
    /\ jobs = <<>>
    /\ cb = [c \in Callers |-> NoCallback]
    /\ users \in {{}, {[githubId |-> "A", githubToken |-> "A"]}}
    /\ savedIssues = <<>>
    /\ saves = [r \in {} |-> 0]

AuthNext ==
    \E c \in Callers :
        \/ Callback(c)
        \/ ExchangeResponds(c)
        \/ GetAccessToken(c)
        \/ GetCurrentUser(c)
        \/ Authenticated(c)
        \/ UserFindOne(c)
        \/ UserStored(c)

AuthSpec == AuthInit /\ [][AuthNext]_vars

(* ==================== saving and unsaving an item ======================== *)

(* One account sends up to MaxSaves requests, each to save or to unsave an
   item; the items 1 and 2 are in the Issue collection, item 3 is not. *)
MaxSaves == 3
Savers == 1..MaxSaves
NoSave == [kind |-> "none", at |-> "none", issueId |-> 0, user |-> <<>>, status |-> 0]

(* POST or DELETE /:id/save arrives: authenticate awaits User.findById. *)
SaveRequest(r, kind, issueId) ==
    /\ saves[r].at = "none"
    /\ saves' = [saves EXCEPT ![r] = [NoSave EXCEPT !.kind = kind, !.at = "authenticate",
                                                    !.issueId = issueId]]
    /\ UNCHANGED <<pipeline, clientVars, serviceVars, octokit, jobs, cb, users, savedIssues>>

(* authenticate: req.user is the account as User.findById returns it now;
   the handler starts and awaits Issue.findById or User.findByIdAndUpdate. *)
Authenticate(r) ==
    /\ saves[r].at = "authenticate"
    /\ saves' = [saves EXCEPT ![r].user = savedIssues,
                              ![r].at = IF saves[r].kind = "save" THEN "findById"
                                        ELSE "pull"]
    /\ UNCHANGED <<pipeline, clientVars, serviceVars, octokit, jobs, cb, users, savedIssues>>

(* POST /:id/save after Issue.findById: 404 for no item, 400 when
   req.user.savedIssues holds the item, else $push is sent. *)
CheckSaved(r) ==
    /\ saves[r].at = "findById"
    /\ saves' = [saves EXCEPT ![r] =
          IF saves[r].issueId \notin {1, 2}
          THEN [@ EXCEPT !.at = "done", !.status = 404]
          ELSE IF \E i \in DOMAIN saves[r].user : saves[r].user[i] = saves[r].issueId
          THEN [@ EXCEPT !.at = "done", !.status = 400]
          ELSE [@ EXCEPT !.at = "push"]]
    /\ UNCHANGED <<pipeline, clientVars, serviceVars, octokit, jobs, cb, users, savedIssues>>

(* $push: { savedIssues: issueId } is applied. *)
PushSaved(r) ==
    /\ saves[r].at = "push"
    /\ savedIssues' = Append(savedIssues, saves[r].issueId)
    /\ saves' = [saves EXCEPT ![r].at = "done", ![r].status = 200]
    /\ UNCHANGED <<pipeline, clientVars, serviceVars, octokit, jobs, cb, users>>

(* $pull: { savedIssues: issueId } is applied. *)
PullSaved(r) ==
    /\ saves[r].at = "pull"
    /\ savedIssues' = SelectSeq(savedIssues, LAMBDA id : id # saves[r].issueId)
    /\ saves' = [saves EXCEPT ![r].at = "done", ![r].status = 200]
    /\ UNCHANGED <<pipeline, clientVars, serviceVars, octokit, jobs, cb, users>>

SaveInit ==
    /\ PipelineInit(Upstream1)
    /\ ClientIdle
    /\ ServiceIdle
    /\ octokit = "app"
    /\ jobs = <<>>
    /\ cb = [c \in {} |-> 0]
    /\ users = {}
    /\ savedIssues \in {<<>>, <<2>>}
    /\ saves = [r \in Savers |-> NoSave]

SaveNext ==
    \E r \in Savers :
        \/ \E kind \in {"save", "unsave"}, issueId \in 1..3 : SaveRequest(r, kind, issueId)
        \/ Authenticate(r)
        \/ CheckSaved(r)
        \/ PushSaved(r)
        \/ PullSaved(r)

SaveSpec == SaveInit /\ [][SaveNext]_vars

(* ============================== claims ================================= *)
Running(c) == pc[c] \in InCycle
Cycling == {c \in Procs : Running(c)}

(* The stored fields of a document, without its _id. *)
DataOf(d) ==
    [githubId |-> d.githubId, title |-> d.title, createdAt |-> d.createdAt,
     lastActivity |-> d.lastActivity, isActive |-> d.isActive,
     popularity |-> d.popularity]

(* C1: single-flight.  At most one caller is inside an aggregation cycle   *)
(* at any instant, and it is inside only while the guard is set; a trigger *)
(* that arrives while the guard is set returns at once: the caller ends    *)
(* as "skipped" with no source-client call in flight, the guard and every  *)
(* other part of the state are as before.                                  *)
C1_AtMostOneCycle ==
    /\ Cardinality(Cycling) <= 1
    /\ (Cycling # {}) => isRunning

C1_RefusedTriggerIsNoop ==
    \A c \in Procs :
        (isRunning /\ pc[c] \in Outside /\ pc'[c] # pc[c]) =>
            /\ pc'[c] = "skipped"
            /\ pc'[c] \notin FetchAwaits
            /\ isRunning' = isRunning
            /\ <<locals, world, cycles, attempts>>' = <<locals, world, cycles, attempts>>
            /\ \A d \in Procs \ {c} : pc'[d] = pc[d]

C1_SingleFlight == [] C1_AtMostOneCycle /\ [][C1_RefusedTriggerIsNoop]_vars

(* A trigger was refused during the first cycle, which is still fetching. *)
C1_Witness ==
    /\ cycles = 1
    /\ isRunning
    /\ \E c \in Procs : pc[c] = "skipped"
    /\ \E d \in Procs : pc[d] \in FetchAwaits

(* C2: every cycle that sets the guard clears it again: whenever no caller *)
(* is inside aggregateIssues the guard is Idle, and a set guard is always  *)
(* eventually cleared, whether the attempts succeed, fail or run out.      *)
C2_IdleWhenReturned == (Cycling = {}) => ~isRunning

C2_GuardReleased == [] C2_IdleWhenReturned /\ (isRunning ~> ~isRunning)

(* A cycle has run out of attempts and the guard is Idle. *)
C2_Witness ==
    /\ result = "exhausted"
    /\ ~isRunning
    /\ Cycling = {}

(* C3: a cycle makes at most 3 attempts.  A further attempt of a cycle     *)
(* starts only out of the delay that follows a thrown error, and only      *)
(* while fewer than 3 attempts have been made; an attempt that throws is   *)
(* followed by the delay if fewer than 3 were made, and ends the cycle     *)
(* otherwise; an attempt that completes ends the cycle.                    *)
C3_Bounded ==
    /\ attempts <= 3
    /\ \A c \in Procs : pc[c] = "awaitDelay" => (attempts < 3 /\ fetchErr # "none")
    /\ result = "exhausted" => attempts = 3

C3_NextAttempt ==
    /\ (attempts' # attempts /\ cycles' = cycles) =>
           \E c \in Procs : /\ pc[c] = "awaitDelay"
                            /\ pc'[c] = "awaitTrending"
                            /\ attempts < 3
                            /\ attempts' = attempts + 1
    /\ \A c \in Procs :
           (pc[c] \in FetchAwaits /\ fetchErr' \in {"trending", "search"}
                /\ pc'[c] \notin InCycle \ {"awaitDelay"}) =>
               IF attempts < 3
               THEN pc'[c] = "awaitDelay" /\ result' = "none"
               ELSE pc'[c] \in Outside /\ result' = "exhausted"
    /\ (result' = "success" /\ result # "success") =>
           (attempts' = attempts /\ Cycling' = {})

C3_AtMostThreeAttempts == [] C3_Bounded /\ [][C3_NextAttempt]_vars

(* The first attempt threw, the second completed and ended the cycle. *)
C3_Witness ==
    /\ attempts = 2
    /\ result = "success"

(* C4: when the third attempt of a cycle has failed, aggregateIssues has   *)
(* returned (its caller is outside, the guard is Idle) and every record    *)
(* the cycle upserted is stored with the values written; the only          *)
(* difference there can be is isActive = false on a record that            *)
(* cleanupOldIssues has deactivated since it was written.                  *)
C4_PartialProgressKept ==
    result = "exhausted" =>
        /\ Cycling = {}
        /\ ~isRunning
        /\ \A w \in written :
               \E d \in store :
                   /\ d.githubId = w.githubId
                   /\ \/ DataOf(d) = w
                      \/ /\ w.githubId \in unseenDeact
                         /\ DataOf(d) = [w EXCEPT !.isActive = FALSE]

(* A cycle ran out of attempts after it had upserted a record. *)
C4_Witness ==
    /\ result = "exhausted"
    /\ written # {}
    /\ \A w \in written : \E d \in store : DataOf(d) = w

(* C5: pipeline idempotence.  After two consecutive cycles that both       *)
(* completed without any error, with no cleanup run since the first one    *)
(* started and the source's content the same throughout, the collection    *)
(* is what it was after the first of them, popularity included.            *)
C5_Idempotent == (stableRuns = 2) => (store = snapStore)

(* C6: the collection holds at most one record per githubId, and no step   *)
(* changes the githubId of a record already stored.                        *)
C6_Unique == \A d, e \in store : d.githubId = e.githubId => d = e

C6_IdentityKept ==
    \A d \in store : \A e \in store' : e._id = d._id => e.githubId = d.githubId

C6_OneRecordPerIdentity == [] C6_Unique /\ [][C6_IdentityKept]_vars

(* In a second cycle the record of item 1, first seen in the repository    *)
(* listing, has been updated from the search result; there is still one    *)
(* record of it.                                                           *)
C6_Witness ==
    /\ cycles = 2
    /\ upstream = Upstream1
    /\ \E d \in store : d.githubId = 1 /\ d.title = "b" /\ d._id = 1
    /\ Cardinality({d \in store : d.githubId = 1}) = 1
    /\ Cardinality(store) = 2

(* C7: an item that is a pull request or has no identity is never looked   *)
(* up and never stored, and the step that meets it in processIssues only   *)
(* moves on to the next item: the collection, the retry counter and the    *)
(* attempt are as before and the attempt has not failed.                   *)
Malformed(item) == item.id = 0 \/ item.pull_request

C7_NeverLookedUp ==
    /\ \A c \in Procs : pc[c] \in {"awaitFindOne", "awaitWrite"} => ~Malformed(cur[c])
    /\ \A d \in store : d.githubId \notin {ItemNoId.id, ItemPR.id}

C7_SkipStep ==
    \A c \in Procs :
        (pc[c] = "items" /\ issues[c] # <<>> /\ Malformed(Head(issues[c]))
             /\ issues'[c] # issues[c]) =>
            /\ pc'[c] = "items"
            /\ issues'[c] = Tail(issues[c])
            /\ <<store, nextId, retryCount, attempts, fetchErr, result, isRunning>>'
                 = <<store, nextId, retryCount, attempts, fetchErr, result, isRunning>>

C7_MalformedSkipped == [] C7_NeverLookedUp /\ [][C7_SkipStep]_vars

(* A first attempt met the pull request of the listing and the item        *)
(* without identity of the search result, and completed.                   *)
C7_Witness ==
    /\ upstream = Upstream1
    /\ sawSkip
    /\ attempts = 1
    /\ result = "success"

(* C8, as claimed: whenever a fetch of the current attempt has failed, the *)
(* attempt has failed: the cycle is in the delay before its next attempt   *)
(* or has been abandoned.                                                  *)
C8_AnyFetchErrorFailsAttempt ==
    fetchErr # "none" =>
        \/ \E c \in Procs : pc[c] = "awaitDelay"
        \/ result = "exhausted"

(* C8, amended: an error of the trending fetch or of the global search     *)
(* fails the attempt, which is retried after the delay while fewer than 3  *)
(* attempts have been made, the cycle being abandoned after the third;     *)
(* an error of a repository listing does not fail the attempt, which goes  *)
(* on with an empty listing for that repository.                           *)
C8_FetchErrorHandling ==
    /\ fetchErr \in {"trending", "search"} =>
           \/ \E c \in Procs : /\ pc[c] = "awaitDelay"
                               /\ attempts < 3
                               /\ retryCount[c] = 3 - attempts
           \/ (result = "exhausted" /\ attempts = 3 /\ Cycling = {})
    /\ fetchErr = "repoIssues" =>
           \/ \E c \in Procs : pc[c] \in InCycle \ {"awaitDelay", "awaitTrending"}
           \/ result = "success"

(* The first attempt was failed by the trending fetch or the search; the   *)
(* second met a failing repository listing and completed all the same.     *)
C8_Witness ==
    /\ attempts = 2
    /\ fetchErr = "repoIssues"
    /\ result = "success"

(* C9: a run of cleanupOldIssues sets isActive to false on exactly the     *)
(* records that are active with lastActivity more than 30 days before the  *)
(* current time; it leaves every other record and field, the set of        *)
(* records, the guard and every caller as they are.                        *)
C9_CleanupStep ==
    (cleanups' # cleanups) =>
        /\ \A d \in store :
               \E e \in store' :
                   /\ e._id = d._id
                   /\ e = [d EXCEPT !.isActive =
                             IF d.isActive /\ d.lastActivity < now - 30
                             THEN FALSE ELSE d.isActive]
        /\ Cardinality(store') = Cardinality(store)
        /\ <<isRunning, pc, locals, nextId, now>>' = <<isRunning, pc, locals, nextId, now>>

StillReturned ==
    {upstream.search[i].id : i \in 1..Len(upstream.search)}
    \cup UNION {{upstream.issuesOf[r][i].id : i \in 1..Len(upstream.issuesOf[r])} :
                   r \in {upstream.trending[j].id : j \in 1..Len(upstream.trending)}}

C10_OnlyUnseenStaleDeactivated ==
    /\ Cardinality(store) = nextId - 1
    /\ \A d \in store :
           /\ ~d.isActive => (d.lastActivity < now - 30 /\ d.githubId \in unseenDeact)
           /\ (d.githubId \in seenLatest /\ d.githubId \in StillReturned
                   /\ Cycling = {}) => d.isActive

(* C13: inside a cycle everything is done one after another: at any        *)
(* instant at most one source-client call or store operation issued by the *)
(* cycle is in flight, the one its caller is suspended at, and the step    *)
(* that starts on an item finds none in flight: the upsert of the item     *)
(* before has completed or failed.                                         *)
OpAwaits == FetchAwaits \cup {"awaitFindOne", "awaitWrite"}

C13_OneInFlight ==
    /\ inFlight \in {0, 1}
    /\ inFlight = Cardinality({c \in Procs : pc[c] \in OpAwaits})

C13_ItemAfterItem ==
    \A c \in Procs :
        (cur'[c] # cur[c] /\ cur'[c] # NoItem) =>
            /\ inFlight = 0
            /\ pc[c] = "items"
            /\ cur[c] = NoItem

C13_Sequential == [] C13_OneInFlight /\ [][C13_ItemAfterItem]_vars

(* The cycle is writing its second item, the first one is stored. *)
C13_Witness ==
    /\ inFlight = 1
    /\ written # {}
    /\ \E c \in Procs : /\ pc[c] = "awaitWrite"
                         /\ cur[c].id \notin GithubIds(written)

(* C14: an attempt asks for the issues of at most 50 repositories, and of  *)
(* no repository twice.                                                    *)
C14_AtMostFiftyReposOnce ==
    /\ Len(fetched) <= 50
    /\ \A i, j \in 1..Len(fetched) : fetched[i] = fetched[j] => i = j

(* C11: every request for data of the source that a method of the client   *)
(* issues (trending search, issue listing, issue search, event listing,    *)
(* repository listing) comes right after a quota check: the request the    *)
(* call issued just before it is rateLimit.get.                            *)
C11_QuotaCheckedBeforeEachCall ==
    \A i \in 1..Len(requests) :
        requests[i].op \in SourceRequests =>
            (i > 1 /\ requests[i - 1].op = "rateLimit.get")

(* C12: when the quota check of a call has reported fewer than 10 requests *)
(* remaining, no later request of the call is issued before the reset time *)
(* reported; the step that ends the wait comes at or after the reset time  *)
(* and issues the next request of the method; neither the check nor the    *)
(* wait ends the call with an error; and a call waiting past the reset     *)
(* time goes on to issue its request.                                      *)
LowQuota == rate # NoRate /\ rate.remaining < 10

GuardedRequestIssued == \E i \in 1..Len(requests) : requests[i].op # "rateLimit.get"

C12_NotBeforeReset ==
    LowQuota =>
        \A i \in 1..Len(requests) :
            requests[i].op # "rateLimit.get" => requests[i].at >= rate.reset

C12_WaitEnds ==
    /\ (cpc = "awaitReset" /\ cpc' # "awaitReset") =>
           /\ clock >= rate.reset
           /\ cpc' \in {"awaitSource", "awaitCurrentUser"}
           /\ Len(requests') = Len(requests) + 1
    /\ cpc \in {"awaitRateLimit", "awaitReset"} => cpc' # "threw"

C12_QuotaWait ==
    /\ [] C12_NotBeforeReset
    /\ [][C12_WaitEnds]_vars
    /\ ((cpc = "awaitReset" /\ clock >= rate.reset) ~> GuardedRequestIssued)

(* A check made before the reset time reported a low quota, the call       *)
(* waited, issued its request at the reset time or later and returned.     *)
C12_Witness ==
    /\ LowQuota
    /\ requests[1].at < rate.reset
    /\ GuardedRequestIssued
    /\ cpc = "returned"

(* ---- C15 ---- *)
SameButCase(a, b) ==
    /\ a.kind = "string"
    /\ b.kind = "string"
    /\ toLowerCase(a.str) = toLowerCase(b.str)
NothingLeft(name) ==
    name.kind # "string" \/ StripPunctuation(toLowerCase(name.str)) = ""

(* C15: normalize gives one canonical name to names that differ only in  *)
(* letter case ("JS" and "js" both give "javascript"), and gives null for *)
(* the empty string, for a non-string, and for an input of which no       *)
(* character of [a-z0-9+-.] is left.                                      *)
C15_Normalize ==
    ret # NotCalled =>
        /\ \A other \in RawNames :
               SameButCase(args[1], other) => normalizeSkillName(other) = ret
        /\ args[1] \in {Str("JS"), Str("js")} => ret = Str("javascript")
        /\ NothingLeft(args[1]) => ret = Null

(* ---- C16 ---- *)
C16_TierNeverDecreases ==
    \A i \in 1..Len(skillsMap) :
        \E j \in 1..Len(skillsMap') :
            /\ skillsMap'[j].name = skillsMap[i].name
            /\ indexOf(levels, skillsMap'[j].level) >= indexOf(levels, skillsMap[i].level)
C16_MeanOnMerge ==
    \A i \in 1..Len(skillsMap) :
        (calls' # calls /\ normalizeSkillName(args'.name) = skillsMap[i].name) =>
            2 * skillsMap'[i].confidence = skillsMap[i].confidence + args'.confidence
C16_OneEntryPerName ==
    /\ \A i, j \in 1..Len(skillsMap) : skillsMap[i].name = skillsMap[j].name => i = j
    /\ (calls > 0 /\ Truthy(normalizeSkillName(args.name))) =>
           \E i \in 1..Len(skillsMap) : skillsMap[i].name = normalizeSkillName(args.name)

(* C16: over any sequence of addSkill calls on one map, the level held    *)
(* for a name never goes down (beginner < intermediate < advanced <       *)
(* expert) whatever the confidence of the later call, a call for a name   *)
(* already held sets its confidence to the mean of the old and the new,   *)
(* and the map holds exactly one entry per normalized name.               *)
C16_MergeMonotone ==
    /\ [][C16_TierNeverDecreases /\ C16_MeanOnMerge]_vars
    /\ [] C16_OneEntryPerName

(* A beginner observation at confidence 1.0 has been merged into an      *)
(* entry that holds expert at a lower confidence.                         *)
C16_Witness ==
    /\ calls >= 2
    /\ args.level = "beginner"
    /\ args.confidence = Tenths(10)
    /\ \E i \in 1..Len(skillsMap) :
           /\ skillsMap[i].name = normalizeSkillName(args.name)
           /\ skillsMap[i].level = "expert"
           /\ skillsMap[i].confidence < Tenths(10)

(* ---- C19 ---- *)
HasItem(list, x) == list.kind = "array" /\ \E i \in 1..Len(list.items) : list.items[i] = x
InternalError ==
    \/ args[2].kind = "null"
    \/ HasItem(args[2], RepoOdd)
    \/ HasItem(args[3], EventOdd)
    \/ args[2].kind = "array" /\ args[2].items = <<>> /\ args[1].bio = SomeNumber
DefaultSkillsAlone ==
    [skills |-> [i \in 1..4 |->
                    [name |-> Str(<<"javascript", "html", "css", "git">>[i]),
                     level |-> "beginner", confidence |-> Tenths(5), source |-> "default"]],
     languages |-> <<>>]

(* C19: the extractor always returns a result, and on an internal error   *)
(* (an absent repository list, a malformed repository or event) the       *)
(* result is the default skill set alone: javascript, html, css and git   *)
(* at beginner level with confidence 0.5 and nothing else, which is what  *)
(* it returns when no skill is detected.                                  *)
C19_DefaultsAloneOnError ==
    calls = 1 =>
        /\ "skills" \in DOMAIN ret
        /\ InternalError => ret = DefaultSkillsAlone

(* ---- C20 ---- *)
RECURSIVE SumPercentages(_)
SumPercentages(languages) ==
    IF languages = <<>> THEN [num |-> 0, den |-> 1]
    ELSE LET p == Head(languages).percentage
             rest == SumPercentages(Tail(languages))
         IN  [num |-> p.num * rest.den + rest.num * p.den, den |-> p.den * rest.den]
SomePositiveSize(languages) ==
    \E i \in 1..Len(languages) :
        "totalSize" \in DOMAIN languages[i] /\ languages[i].totalSize > 0

(* C20: in every result of the extractor the language percentages sum to  *)
(* 100 when the accumulated size is positive and to 0 when no language    *)
(* has a positive size, and never to more than 100.                       *)
C20_PercentagesSum ==
    calls = 1 =>
        LET total == SumPercentages(ret.languages)
        IN  /\ SomePositiveSize(ret.languages) => total.num = 100 * total.den
            /\ ~SomePositiveSize(ret.languages) => total.num = 0
            /\ total.num <= 100 * total.den

(* ---- C17 ---- *)
C17_UniqueNames ==
    \A i, j \in 1..Len(userSkills) :
        (/\ i # j
         /\ userSkills[i].name.kind = "string"
         /\ userSkills[j].name.kind = "string")
            => normalizeSkillName(userSkills[i].name) # normalizeSkillName(userSkills[j].name)
C17_ManualAddMerges ==
    \A i \in 1..Len(userSkills) :
        (/\ args'.op = "post"
         /\ calls' # calls
         /\ normalizeSkillName(userSkills[i].name) = normalizeSkillName(Str(args'.name)))
            => /\ Len(userSkills') = Len(userSkills)
               /\ userSkills'[i].confidence = Tenths(10)

(* C17: after any sequence of bulk replacements by the extractor and of   *)
(* manual adds and removes, no two skills of the profile have names with  *)
(* the same normalized name, and a manual add of a name that is present   *)
(* after normalization sets that entry to confidence 1.0 and inserts      *)
(* nothing.                                                               *)
C17_ProfileNamesUnique == [] C17_UniqueNames /\ [][C17_ManualAddMerges]_vars

(* ---- C18 ---- *)
Canonical(name) == name.kind = "string" /\ normalizeSkillName(name) = name
ComparesEqual(held, required) ==
    /\ held.kind = "string"
    /\ required.kind = "string"
    /\ toLowerCase(held.str) = toLowerCase(required.str)

(* C18: every required skill of an item and every skill name that the     *)
(* extractor gave a profile is a name the normalizer maps to itself, so a *)
(* skill required by the item and held by the profile under the same      *)
(* normalized name compares equal in the skill factor.                    *)
C18_NamesCanonical ==
    /\ \A i \in 1..Len(userSkills) :
           userSkills[i].source # "manual" => Canonical(userSkills[i].name)
    /\ ret # NotCalled =>
           /\ \A k \in 1..Len(ret.items) : Canonical(ret.items[k])
           /\ \A k \in 1..Len(ret.items), i \in 1..Len(userSkills) :
                  (/\ userSkills[i].source # "manual"
                   /\ normalizeSkillName(ret.items[k]) = normalizeSkillName(userSkills[i].name))
                      => ComparesEqual(userSkills[i].name, ret.items[k])

(* ---- C30 ---- *)
C30_SecondCallSame == (calls = 1 /\ calls' = 2) => ret' = ret
C30_AliasTargetsFixed ==
    (calls = 1 /\ \E a \in aliases : args[1] = Str(a[2])) => ret = args[1]

(* C30: the normalizer is idempotent: a name it returned comes back       *)
(* unchanged when it is normalized again, and every value of the alias    *)
(* table is mapped to itself.                                             *)
C30_Idempotent == [][C30_SecondCallSame]_vars /\ [] C30_AliasTargetsFixed

(* ---- C21 ---- *)
Carries(name) ==
    /\ args[1].labels.kind = "array"
    /\ \E i \in 1..Len(args[1].labels.items) :
           toLowerCase(args[1].labels.items[i].name.str) = name
TextOf(issue) == toLowerCase(issue.title \o " " \o issue.body.str)
TextTier ==
    IF \E w \in {"easy", "simple", "beginner"} : includes(TextOf(args[1]), w) THEN "beginner"
    ELSE IF \E w \in {"advanced", "complex"} : includes(TextOf(args[1]), w) THEN "advanced"
    ELSE "intermediate"

(* The statement as the claim has it: "good first issue" gives beginner,  *)
(* "help wanted" without it gives intermediate, the text decides when     *)
(* neither of the two labels is present.                                  *)
C21_TwoLabelsOnly ==
    calls = 1 =>
        /\ Carries("good first issue") => ret.difficulty = "beginner"
        /\ (Carries("help wanted") /\ ~Carries("good first issue"))
               => ret.difficulty = "intermediate"
        /\ (~Carries("help wanted") /\ ~Carries("good first issue"))
               => ret.difficulty = TextTier

(* C21: an item with the label "good first issue" or "good-first-issue"   *)
(* (in any letter case) is classified beginner whatever its text and its  *)
(* other labels are; otherwise an item with the label "help wanted" is    *)
(* classified intermediate whatever its text is; otherwise the keywords   *)
(* of the text decide, and an item without a list of labels is classified *)
(* intermediate.                                                          *)
C21_LabelsBeforeText ==
    calls = 1 =>
        LET first == Carries("good first issue") \/ Carries("good-first-issue")
        IN  /\ first => ret.difficulty = "beginner"
            /\ (Carries("help wanted") /\ ~first) => ret.difficulty = "intermediate"
            /\ (args[1].labels.kind = "array" /\ ~Carries("help wanted") /\ ~first)
                   => ret.difficulty = TextTier
            /\ args[1].labels.kind # "array" => ret.difficulty = "intermediate"

(* A "good first issue" item whose text says advanced came out beginner. *)
C21_Witness ==
    /\ calls = 1
    /\ Carries("good first issue")
    /\ Carries("help wanted")
    /\ includes(TextOf(args[1]), "advanced")
    /\ ret.difficulty = "beginner"

(* ---- C22 ---- *)
NoDuplicates(list) == \A i, j \in 1..Len(list) : list[i] = list[j] => i = j
Holds(list, x) == \E i \in 1..Len(list) : list[i] = x

(* C22: the required skills of an item are a list without duplicates that *)
(* holds the normalized name of each of its labels, the normalized        *)
(* language of its repository when there is one, and the keyword          *)
(* categories found in its title and body.                                *)
C22_RequiredSkillsComplete ==
    (calls = 1 /\ args[1].labels.kind = "array") =>
        /\ NoDuplicates(ret.requiredSkills)
        /\ \A i \in 1..Len(args[1].labels.items) :
               Holds(ret.requiredSkills, normalizeSkillName(args[1].labels.items[i].name))
        /\ Truthy(args[2].language)
               => Holds(ret.requiredSkills, normalizeSkillName(args[2].language))
        /\ \A k \in 1..Len(keywordPatterns) :
               PatternTest(keywordPatterns[k][1], TextOf(args[1]))
                   <=> Holds(ret.requiredSkills, Str(keywordPatterns[k][2]))

(* ------------------------------------------------------------------------ *)
(* The factors of the call that is followed. *)
LanguageFactor == calculateLanguageMatchScore(args[1].languages, args[2].repository.language)
SkillFactor == calculateSkillMatchScore(args[1].skills, args[2].requiredSkills)
DifficultyFactor == calculateDifficultyMatchScore(difficultLevels(args[1]), args[2].difficulty)
FreshnessFactor == calculateFreshnessScore(args[2].createdAt, args[3])
Scored == calls >= 1 /\ ret # NotCalled

(* C23: the score is in [0, 1] for every profile and every item, whatever the
   item has and whatever its creation time is relative to the current time. *)
C23_ScoreInUnitInterval ==
    Scored => /\ 0 <= ret.score.num
              /\ ret.score.num <= ret.score.den

(* ------------------------------------------------------------------------ *)
NoLanguageNoSkills ==
    /\ ~Truthy(args[2].repository.language)
    /\ args[2].requiredSkills = <<>>
NotPreferred ==
    /\ Truthy(args[2].difficulty)
    /\ \A i \in DOMAIN difficultLevels(args[1]) :
           difficultLevels(args[1])[i] # args[2].difficulty.str

(* The statement as the specification has it: an item with no language, no
   required skills and a difficulty that is not preferred scores exactly the
   freshness factor. *)
C24_ScoresFreshnessExactly ==
    (Scored /\ NoLanguageNoSkills /\ NotPreferred)
        => ret.score.num * ScoreUnit = FreshnessFactor * ret.score.den

(* C24: an item with no language and no required skills scores exactly the
   freshness factor when it has no difficulty either; when it has a difficulty
   that is not preferred, the difficulty factor counts as 0 with its weight,
   and the score is the freshness factor times 0.1 / (0.2 + 0.1). *)
C24_FreshnessShare ==
    (Scored /\ NoLanguageNoSkills) =>
        /\ ~Truthy(args[2].difficulty)
              => ret.score.num * ScoreUnit = FreshnessFactor * ret.score.den
        /\ NotPreferred
              => ret.score.num * ScoreUnit * (weights.difficulty + weights.freshness)
                     = FreshnessFactor * weights.freshness * ret.score.den

C24_Witness ==
    /\ Scored
    /\ NoLanguageNoSkills
    /\ NotPreferred
    /\ FreshnessFactor > 0
    /\ ret.score.num > 0

(* ------------------------------------------------------------------------ *)
Scenario ==
    /\ args[1].languages = <<Usage("python", 80)>>
    /\ args[1].skills = <<Known("python")>>
    /\ difficultLevels(args[1]) = <<>>
    /\ args[2].repository.language = Str("python")
    /\ args[2].requiredSkills = <<"python">>
    /\ args[2].difficulty = Str("intermediate")
    /\ args[2].createdAt = Created(args[3])
ScenarioFactors ==
    /\ LanguageFactor * 10 = 8 * ScoreUnit
    /\ SkillFactor = ScoreUnit
    /\ DifficultyFactor = 0
    /\ FreshnessFactor = ScoreUnit

(* The statement as the specification has it: the scenario scores 0.62. *)
C25_ScenarioScores062 ==
    (Scored /\ Scenario)
        => ScenarioFactors /\ ret.score.num * 100 = 62 * ret.score.den

(* C25: in the scenario the factors are language 0.8, skill 1.0, difficulty 0
   and freshness 1.0, and the score is
   (0.8 * 0.4 + 1.0 * 0.3 + 0 * 0.2 + 1.0 * 0.1) / 1.0 = 0.72. *)
C25_ScenarioScores072 ==
    (Scored /\ Scenario)
        => ScenarioFactors /\ ret.score.num * 100 = 72 * ret.score.den

C25_Witness == Scored /\ Scenario /\ ret.score.num > 0

(* ------------------------------------------------------------------------ *)
LanguageReasons ==
    {"Matches your " \o args[1].languages[i].name \o " experience" :
        i \in DOMAIN args[1].languages}
SkillsLead == "Matches your skills: "
Rank(reason) ==
    IF reason \in LanguageReasons THEN 1
    ELSE IF SubSeq(reason, 1, Len(SkillsLead)) = SkillsLead THEN 2
    ELSE IF reason = "Matches your preferred difficulty level" THEN 3
    ELSE 0
Reasoned == calls = 2 /\ ret.reasons # NotCalled

(* C26: the reasons hold an entry for a factor only when that factor is
   greater than 0 (language), at least one required skill is in the profile
   (skills), the difficulty is preferred (difficulty); the entries come in
   that order, and there is none when the three factors are 0. *)
C26_ReasonsOnlyForPositiveFactors ==
    Reasoned =>
        LET reasons == ret.reasons.items
        IN  /\ \A i \in DOMAIN reasons :
                /\ Rank(reasons[i]) = 1 => LanguageFactor > 0
                /\ Rank(reasons[i]) = 2 => SkillFactor > 0
                /\ Rank(reasons[i]) = 3 => DifficultyFactor > 0
                /\ Rank(reasons[i]) # 0
            /\ \A i, j \in DOMAIN reasons : i < j => Rank(reasons[i]) < Rank(reasons[j])
            /\ (LanguageFactor = 0 /\ SkillFactor = 0 /\ DifficultyFactor = 0)
                   => reasons = <<>>

(* ------------------------------------------------------------------------ *)
(* C27: the popularity of every stored item is in [0, 1], whatever the star,
   comment and reaction counts and the creation time of the item are. *)
C27_PopularityInUnitInterval ==
    \A d \in store : 0 <= d.popularity /\ d.popularity <= PopScale

(* ------------------------------------------------------------------------ *)
(* C28: under every interleaving of two callbacks of different accounts, the
   user that a callback is answered with, the record it finds or creates and
   the session it issues are those of the account whose code it received. *)
C28_SessionOfOwnAccount ==
    \A c \in DOMAIN cb :
        /\ cb[c].at \in {"find", "store", "done"} => cb[c].githubUser = c
        /\ cb[c].at = "done" =>
              /\ cb[c].session = c
              /\ [githubId |-> c, githubToken |-> c] \in users
        /\ \A u \in users : u.githubToken = u.githubId

(* The client of the service has been rebuilt for B while the request of A
   for its user is under way, and A is answered with its own account. *)
C28_Witness ==
    /\ DOMAIN cb = Callers
    /\ cb["A"].at = "done"
    /\ cb["A"].session = "A"
    /\ cb["B"].at \in {"identify", "find", "store", "done"}
    /\ octokit = "B"
    /\ cb["A"].logins = 1

(* ------------------------------------------------------------------------ *)
(* C29: savedIssues never holds an item twice, under every interleaving of
   the save and unsave requests of the account, and no save of an item that
   the list holds is let through to add it again. *)
C29_SavedAtMostOnce ==
    /\ \A i, j \in DOMAIN savedIssues : i # j => savedIssues[i] # savedIssues[j]
    /\ \A r \in DOMAIN saves :
           saves[r].at = "push" =>
               \A i \in DOMAIN savedIssues : savedIssues[i] # saves[r].issueId

====
